---- MODULE Spec2Model ----
(***************************************************************************)
(* A model of the LLM call-center agent's core: the in-memory session      *)
(* store (app/storage/memory.py), the dialogue manager                     *)
(* (app/core/manager.py), the dialogue service that processes one turn     *)
(* (app/services/dialogue_service.py), the classification stage            *)
(* (app/services/classification_service.py, app/core/client.py) and the    *)
(* metrics collector (app/core/metrics.py).                                *)
(*                                                                         *)
(* Scheduling.  The program runs on one asyncio event loop.  A coroutine   *)
(* gives up control only where it awaits something that is not ready: the  *)
(* provider call (client.chat.completions.create), the retry back-off and  *)
(* the sweeper's sleep.  The storage and manager coroutines await only     *)
(* each other and never suspend, so each manager operation, and each part  *)
(* of process_message between two provider awaits, is one atomic action.   *)
(*                                                                         *)
(* Objects.  The store keeps references: get_session hands out the very    *)
(* object that store_session put in the dict, and every mutation is made   *)
(* in place on it.  A session id (uuid4) names exactly one object for the  *)
(* whole run, so the dict `sessions` is modelled as a function from the    *)
(* ids that are keys to the current state of that object.                  *)
(*                                                                         *)
(* Time.  datetime.now() is a clock `now` in ticks.  Time may pass between *)
(* any two actions (Tick) and, inside manager.get_session, between the     *)
(* store's expiry check and the manager's own.                             *)
(*                                                                         *)
(* Numbers.  Confidences are in hundredths (0.5 is 50), costs in           *)
(* micro-dollars.                                                          *)
(***************************************************************************)
EXTENDS Integers, Sequences, FiniteSets, TLC

\* ---------------------------------------------------------------- bounds
MaxTime == 2
MaxMsgs == 4

\* default_ttl = 3600 s; one tick is 3600 s
DefaultTTL == 1
\* stop_after_attempt(3)
MaxAttempts == 3

\* ------------------------------------------------------------- vocabulary
None == <<>>
Some(x) == <<x>>

\* session ids: uuid4 values; NoSuchId is an id no session was created with
Ids == {1, 2}
NoSuchId == 0
AllIds == Ids \cup {NoSuchId}

Turns == {"t1", "t2"}

\* enums.py
RequestTypes == {"tech_support", "sales", "complaint", "general"}
NoType == "None"
STATUS_ACTIVE == "active"
STATUS_COMPLETED == "completed"
STATUS_ESCALATED == "escalated"
STATUS_TIMEOUT == "timeout"
DialogueStatus == {STATUS_ACTIVE, STATUS_COMPLETED, STATUS_ESCALATED, STATUS_TIMEOUT}
ROLE_USER == "user"
ROLE_ASSISTANT == "assistant"
ROLE_SYSTEM == "system"
MessageRole == {ROLE_USER, ROLE_ASSISTANT, ROLE_SYSTEM}

\* exceptions.py
PRIORITY_LOW == "low"
PRIORITY_MEDIUM == "medium"
PRIORITY_HIGH == "high"
PRIORITY_URGENT == "urgent"
Priority == {PRIORITY_LOW, PRIORITY_MEDIUM, PRIORITY_HIGH, PRIORITY_URGENT}

SessionNotFound == "SessionNotFoundError"
\* what pydantic raises when an attribute that is not a field is assigned
ValueErrorRaised == "ValueError"
LLMError == "LLMError"
LLMRateLimit == "LLMRateLimitError"
LLMTimeout == "LLMTimeoutError"
LLMErrors == {LLMError, LLMRateLimit, LLMTimeout}
NoError == "ok"

VARIABLES
    now,        \* datetime.now(), in ticks
    sessions,   \* MemoryStorage.sessions: id -> session object
    nextId,     \* the next fresh session id (uuid4)
    published,  \* ids a caller holds: a session id is known once its creator returned it
    turn,       \* the process_message coroutines in flight, by request slot
    metrics,    \* MetricsCollector.session_metrics: id -> sample row
    hourly,     \* MetricsCollector.hourly_stats: hour key -> bucket
    ret,        \* what the last operation returned to its caller (`had`: the key was there)
    log,        \* per session id: the seeded message and the add_message calls that returned
    call,       \* a retry-wrapped provider call made outside a turn
    cls,        \* what classify_message returned for that call
    opt,        \* ResponseOptimizer.response_cache and the setting enable_caching
    proc,       \* the process: its UTC offset, the store's cleanup task, close() and the lifespan
    api         \* the transport: the add_feedback request in flight, the ids answered 404 after
                \* expiry, and the provider calls counted for the turn in flight

vars ==
    <<now, sessions, nextId, published, turn, metrics, hourly, ret, log, call, cls, opt,
      proc, api>>

\* --------------------------------------------------------- models/dialogue.py
\* Message(role, content); id, timestamp and metadata are not read by the core
Message(role, content) == [role |-> role, content |-> content]

\* DialogueSession.is_expired
MutIsExpired(sess, t) == FALSE

IsExpired(sess, t) ==
    IF sess.expires_at = None THEN FALSE ELSE t > sess.expires_at[1]

\* DialogueSession.add_message: append, stamp updated_at, count assistant replies
MutSessionAddMessage(sess, role, content, t) ==
    [sess EXCEPT !.messages = <<Message(role, content)>>,
                 !.updated_at = t,
                 !.response_count = IF role = ROLE_ASSISTANT THEN @ + 1 ELSE @]

MutCountEveryMessage(sess, role, content, t) ==
    [sess EXCEPT !.messages = Append(@, Message(role, content)),
                 !.updated_at = t,
                 !.response_count = @ + 1]

SessionAddMessage(sess, role, content, t) ==
    [sess EXCEPT !.messages = Append(@, Message(role, content)),
                 !.updated_at = t,
                 !.response_count = IF role = ROLE_ASSISTANT THEN @ + 1 ELSE @]

\* a session built without its time to live
MutNewSession(t) ==
    [status |-> STATUS_ACTIVE,
     messages |-> <<>>,
     request_type |-> NoType,
     confidence |-> 0,
     response_count |-> 0,
     satisfaction |-> None,
     customer_id |-> None,
     customer_name |-> None,
     priority |-> PRIORITY_MEDIUM,
     session_data |-> <<>>,
     escalation_reason |-> None,
     created_at |-> t,
     updated_at |-> t,
     expires_at |-> Some(t)]

\* DialogueSession(context=DialogueContext(...), expires_at=now + ttl)
NewSession(t) ==
    [status |-> STATUS_ACTIVE,
     messages |-> <<>>,
     request_type |-> NoType,
     confidence |-> 0,
     response_count |-> 0,
     satisfaction |-> None,
     customer_id |-> None,
     customer_name |-> None,
     priority |-> PRIORITY_MEDIUM,
     session_data |-> <<>>,
     escalation_reason |-> None,
     created_at |-> t,
     updated_at |-> t,
     expires_at |-> Some(t + DefaultTTL)]

\* --------------------------------------------------------- storage/memory.py
\* MemoryStorage.store_session
StoreSession(map, s, sess) ==
    [k \in DOMAIN map \cup {s} |-> IF k = s THEN sess ELSE map[k]]

\* MemoryStorage.delete_session
DeleteSession(map, s) ==
    [k \in DOMAIN map \ {s} |-> map[k]]

\* MemoryStorage.get_session: the entry, unless it is expired at t, and then
\* the entry is deleted and None returned
MutStorageGetSession(map, s, t) ==
    IF s \in DOMAIN map
    THEN [map |-> map, val |-> Some(map[s])]
    ELSE [map |-> map, val |-> None]

StorageGetSession(map, s, t) ==
    IF s \in DOMAIN map /\ IsExpired(map[s], t)
    THEN [map |-> DeleteSession(map, s), val |-> None]
    ELSE IF s \in DOMAIN map
         THEN [map |-> map, val |-> Some(map[s])]
         ELSE [map |-> map, val |-> None]

\* MemoryStorage.get_active_sessions: the unexpired entries; the expired are deleted
MutGetActiveSessions(map, t) ==
    LET expired_ids == {k \in DOMAIN map : IsExpired(map[k], t)}
        active == [k \in DOMAIN map \ expired_ids |-> map[k]]
    IN [map |-> map, val |-> active]

GetActiveSessions(map, t) ==
    LET expired_ids == {k \in DOMAIN map : IsExpired(map[k], t)}
        active == [k \in DOMAIN map \ expired_ids |-> map[k]]
    IN [map |-> [k \in DOMAIN map \ expired_ids |-> map[k]], val |-> active]

\* ----------------------------------------------------------- core/manager.py
\* DialogueManager.get_session: the store's check at t1, the manager's own at t2
MutMgrGetSession(map, s, t1, t2) ==
    LET got == StorageGetSession(map, s, t1)
    IN IF got.val = None
       THEN [map |-> got.map, val |-> None, err |-> SessionNotFound]
       ELSE [map |-> got.map, val |-> got.val, err |-> NoError]

MgrGetSession(map, s, t1, t2) ==
    LET got == StorageGetSession(map, s, t1)
    IN IF got.val = None
       THEN [map |-> got.map, val |-> None, err |-> SessionNotFound]
       ELSE IF IsExpired(got.val[1], t2)
            THEN [map |-> DeleteSession(got.map, s), val |-> None, err |-> SessionNotFound]
            ELSE [map |-> got.map, val |-> got.val, err |-> NoError]

\* DialogueManager.update_session: stamp updated_at, store
MutUpdateSession(map, s, sess, t) ==
    IF s \in DOMAIN map /\ map[s].updated_at = t
    THEN map
    ELSE StoreSession(map, s, [sess EXCEPT !.updated_at = t])

MutSlidingUpdateSession(map, s, sess, t) ==
    StoreSession(map, s, [sess EXCEPT !.updated_at = t,
                                      !.expires_at = Some(t + DefaultTTL)])

UpdateSession(map, s, sess, t) ==
    StoreSession(map, s, [sess EXCEPT !.updated_at = t])

\* DialogueManager.add_message: get_session, session.add_message, update_session
MutMgrAddMessage(map, s, role, content, t1, t2) ==
    LET got == MgrGetSession(map, s, t1, t2)
    IN IF got.err # NoError
       THEN got
       ELSE LET sess == SessionAddMessage(got.val[1], role, content, t2)
            IN [map |-> IF role = ROLE_ASSISTANT
                        THEN got.map
                        ELSE UpdateSession(got.map, s, sess, t2),
                val |-> Some([sess EXCEPT !.updated_at = t2]),
                err |-> NoError]

MutAddMessageOnStaleCopy(map, s, role, content, t1, t2) ==
    LET got == MgrGetSession(map, s, t1, t2)
    IN IF got.err # NoError
       THEN got
       ELSE LET stale == [got.val[1] EXCEPT !.messages =
                             IF role = ROLE_ASSISTANT
                             THEN SubSeq(@, 1, Len(@) - 1) ELSE @]
                sess == SessionAddMessage(stale, role, content, t2)
            IN [map |-> UpdateSession(got.map, s, sess, t2),
                val |-> Some([sess EXCEPT !.updated_at = t2]),
                err |-> NoError]

MgrAddMessage(map, s, role, content, t1, t2) ==
    LET got == MgrGetSession(map, s, t1, t2)
    IN IF got.err # NoError
       THEN got
       ELSE LET sess == SessionAddMessage(got.val[1], role, content, t2)
            IN [map |-> UpdateSession(got.map, s, sess, t2),
                val |-> Some([sess EXCEPT !.updated_at = t2]),
                err |-> NoError]

\* the fields of DialogueContext, and attributes every pydantic model has that
\* are not fields
ContextFields ==
    {"customer_id", "customer_name", "request_type", "priority", "session_data",
     "classification_confidence", "response_count", "satisfaction_score",
     "escalation_reason"}
ModelAttributes == {"copy", "dict", "json"}

\* hasattr(session.context, key)
HasAttr(key) == key \in ContextFields \cup ModelAttributes

\* the name a context field has in the session record
FieldName(key) ==
    IF key = "classification_confidence" THEN "confidence"
    ELSE IF key = "satisfaction_score" THEN "satisfaction"
    ELSE key

\* update_context's loop over **context_updates, in the order of the keywords:
\* setattr for a key the context has, which raises for one that is no field;
\* session_data[key] for any other key
RECURSIVE ApplyContextUpdates(_, _)
ApplyContextUpdates(sess, context_updates) ==
    IF context_updates = <<>>
    THEN [sess |-> sess, err |-> NoError]
    ELSE LET key == Head(context_updates)[1]
             value == Head(context_updates)[2]
         IN IF HasAttr(key)
            THEN IF key \in ContextFields
                 THEN ApplyContextUpdates([sess EXCEPT ![FieldName(key)] = value],
                                          Tail(context_updates))
                 ELSE [sess |-> sess, err |-> ValueErrorRaised]
            ELSE ApplyContextUpdates(
                     [sess EXCEPT !.session_data =
                         [k \in (DOMAIN @) \cup {key} |-> IF k = key THEN value ELSE @[k]]],
                     Tail(context_updates))

\* DialogueManager.update_context(session_id, request_type, confidence,
\* **context_updates).  The session is the stored object: what is assigned
\* before an exception stays assigned.
MgrUpdateContext(map, s, request_type, confidence, context_updates, t1, t2) ==
    LET got == MgrGetSession(map, s, t1, t2)
    IN IF got.err # NoError
       THEN got
       ELSE LET s1 == IF request_type # NoType
                      THEN [got.val[1] EXCEPT !.request_type = request_type]
                      ELSE got.val[1]
                s2 == IF confidence # None
                      THEN [s1 EXCEPT !.confidence = confidence[1]]
                      ELSE s1
                applied == ApplyContextUpdates(s2, context_updates)
                s3 == [applied.sess EXCEPT !.updated_at = t2]
            IN IF applied.err # NoError
               THEN [map |-> StoreSession(got.map, s, applied.sess), val |-> None,
                     err |-> applied.err]
               ELSE [map |-> UpdateSession(got.map, s, applied.sess, t2),
                     val |-> Some(s3), err |-> NoError]

\* DialogueManager.close_session(session_id, status)
MutMgrCloseSession(map, s, status, t1, t2) ==
    LET got == MgrGetSession(map, s, t1, t2)
    IN IF got.err # NoError
       THEN got
       ELSE [map |-> DeleteSession(got.map, s),
             val |-> Some([got.val[1] EXCEPT !.status = status, !.updated_at = t2]),
             err |-> NoError]

MgrCloseSession(map, s, status, t1, t2) ==
    LET got == MgrGetSession(map, s, t1, t2)
    IN IF got.err # NoError
       THEN got
       ELSE LET s1 == [got.val[1] EXCEPT !.status = status]
            IN [map |-> UpdateSession(got.map, s, s1, t2),
                val |-> Some([s1 EXCEPT !.updated_at = t2]), err |-> NoError]

\* ------------------------------------------------------------ core/client.py
\* What one attempt of client.chat.completions.create can do other than reply
RAW_TIMEOUT == "asyncio.TimeoutError"
RAW_RATE_LIMIT == "rate_limit in message"
RAW_OTHER == "other exception"
RawFailures == {RAW_TIMEOUT, RAW_RATE_LIMIT, RAW_OTHER}

\* generate_response's except clauses: the typed error an attempt raises
MutTypedError(raw) ==
    IF raw = RAW_RATE_LIMIT THEN LLMRateLimit ELSE LLMError

TypedError(raw) ==
    IF raw = RAW_TIMEOUT THEN LLMTimeout
    ELSE IF raw = RAW_RATE_LIMIT THEN LLMRateLimit
    ELSE LLMError

\* One call of the retry-wrapped generate_response:
\* @retry(stop=stop_after_attempt(3), wait=..., reraise=True)
CallStart ==
    [attempts |-> 0, status |-> "pending", error |-> NoError, last |-> "none", reply |-> None]

NoCall ==
    [attempts |-> 0, status |-> "idle", error |-> NoError, last |-> "none", reply |-> None]

\* an attempt raised: retried unless it was the last one allowed, and then
\* the error of this attempt is re-raised
MutAttemptFailed(c, raw) ==
    LET n == c.attempts + 1
    IN IF n > MaxAttempts
       THEN [attempts |-> n, status |-> "raised", error |-> TypedError(raw),
             last |-> raw, reply |-> None]
       ELSE [attempts |-> n, status |-> "pending", error |-> NoError,
             last |-> "none", reply |-> None]

MutAttemptFailedForever(c, raw) ==
    [attempts |-> c.attempts + 1, status |-> "pending", error |-> NoError,
     last |-> "none", reply |-> None]

AttemptFailed(c, raw) ==
    LET n == c.attempts + 1
    IN IF n >= MaxAttempts
       THEN [attempts |-> n, status |-> "raised", error |-> TypedError(raw),
             last |-> raw, reply |-> None]
       ELSE [attempts |-> n, status |-> "pending", error |-> NoError,
             last |-> "none", reply |-> None]

\* an attempt returned: the call returns its result
AttemptReturned(c, reply) ==
    [attempts |-> c.attempts + 1, status |-> "returned", error |-> NoError,
     last |-> "reply", reply |-> Some(reply)]

\* --- the provider's reply to the classification prompt ---
\* a JSON value found under a key of the reply, or the key's absence
JNum(v) == [k |-> "num", v |-> v]
JStr(v) == [k |-> "str", v |-> v]
JNumStr(v) == [k |-> "numstr", v |-> v]
JNull == [k |-> "null"]
JMissing == [k |-> "missing"]

\* the content of a reply: text that is no JSON, the empty string, JSON that
\* is no object, or an object with (or without) "type" and "confidence"
NotJson == [kind |-> "not_json"]
EmptyReply == [kind |-> "empty"]
NotDict == [kind |-> "not_dict"]
JsonDict(type, confidence) == [kind |-> "dict", type |-> type, confidence |-> confidence]

\* dict.get(key, default)
DictGet(field, default) == IF field = JMissing THEN default ELSE field

\* str(x)
PyStr(field) ==
    IF field.k = "str" THEN field.v
    ELSE IF field.k = "null" THEN "None"
    ELSE "a number"

\* float(x): a number, a numeric string, or ValueError / TypeError
PyFloat(field) ==
    IF field.k \in {"num", "numstr"} THEN [exc |-> NoError, v |-> field.v]
    ELSE IF field.k = "str" THEN [exc |-> "ValueError", v |-> 0]
    ELSE [exc |-> "TypeError", v |-> 0]

FallbackDict == [exc |-> NoError, type |-> "general", confidence |-> 50]

\* LLMClient.classify_request, given how the generate_response call ended:
\* a dict {"type", "confidence"}, or the exception that leaves it
ClassifyRequest(c) ==
    IF c.status = "raised" THEN [exc |-> c.error, type |-> "", confidence |-> 0]
    ELSE LET content == c.reply[1]
         IN IF content.kind \in {"not_json", "empty"}
            THEN FallbackDict            \* json.JSONDecodeError, caught
            ELSE IF content.kind = "not_dict"
            THEN [exc |-> "AttributeError", type |-> "", confidence |-> 0]
            ELSE LET type == PyStr(DictGet(content.type, JStr("general")))
                     conf == PyFloat(DictGet(content.confidence, JNum(50)))
                 IN IF conf.exc = "ValueError" THEN FallbackDict
                    ELSE IF conf.exc # NoError
                    THEN [exc |-> conf.exc, type |-> "", confidence |-> 0]
                    ELSE [exc |-> NoError, type |-> type, confidence |-> conf.v]

\* ------------------------------------------ services/classification_service.py
\* ClassificationService.classify_message: (request_type, confidence)
MutClassifyMessage(c) ==
    LET result == ClassifyRequest(c)
    IN IF result.exc # NoError
       THEN [request_type |-> "general", confidence |-> 50]
       ELSE IF result.type \in RequestTypes
            THEN [request_type |-> result.type, confidence |-> result.confidence]
            ELSE [request_type |-> "general", confidence |-> result.confidence]

ClassifyMessage(c) ==
    LET result == ClassifyRequest(c)
    IN IF result.exc # NoError
       THEN [request_type |-> "general", confidence |-> 50]
       ELSE IF result.type \in RequestTypes
            THEN [request_type |-> result.type, confidence |-> result.confidence]
            ELSE [request_type |-> "general", confidence |-> 50]

\* ----------------------------------------------------------- core/metrics.py
\* ticks in an hour: the hour key of strftime("%Y-%m-%d-%H")
TicksPerHour == 1
HourKey(t) == t \div TicksPerHour

EmptyBucket ==
    [sessions |-> 0, total_tokens |-> 0, total_cost |-> 0,
     response_times |-> <<>>, satisfactions |-> <<>>]

\* datetime.utcnow() when datetime.now() reads t: SessionMetrics.created_at is
\* stamped in UTC, without a zone
UtcNow(t) == t - proc.utc_offset * TicksPerHour

\* MetricsCollector.track_session_start: a new row under the session's key
TrackSessionStart(m, s, request_type, confidence, t) ==
    [k \in DOMAIN m \cup {s} |->
        IF k = s
        THEN [request_type |-> request_type, response_times |-> <<>>,
              tokens_used |-> 0, total_cost |-> 0, satisfaction |-> None,
              confidence |-> confidence, created_at |-> t]
        ELSE m[k]]

\* MetricsCollector.track_response, the session rows
MutTrackResponseRows(m, s, response_time_ms, tokens, cost) ==
    IF s \in DOMAIN m
    THEN [m EXCEPT ![s].response_times = Append(@, response_time_ms),
                   ![s].tokens_used = @ + tokens,
                   ![s].total_cost = @ + tokens]
    ELSE m

TrackResponseRows(m, s, response_time_ms, tokens, cost) ==
    IF s \in DOMAIN m
    THEN [m EXCEPT ![s].response_times = Append(@, response_time_ms),
                   ![s].tokens_used = @ + tokens,
                   ![s].total_cost = @ + cost]
    ELSE m

\* MetricsCollector.track_response, the hour buckets (a defaultdict)
TrackResponseHours(m, h, s, response_time_ms, tokens, cost, t) ==
    IF s \in DOMAIN m
    THEN LET key == HourKey(t)
             b == IF key \in DOMAIN h THEN h[key] ELSE EmptyBucket
             b1 == [b EXCEPT !.sessions = @ + 1,
                             !.total_tokens = @ + tokens,
                             !.total_cost = @ + cost,
                             !.response_times = Append(@, response_time_ms)]
         IN [k \in DOMAIN h \cup {key} |-> IF k = key THEN b1 ELSE h[k]]
    ELSE h

\* MetricsCollector.track_satisfaction, the session rows
TrackSatisfactionRows(m, s, score) ==
    IF s \in DOMAIN m THEN [m EXCEPT ![s].satisfaction = Some(score)] ELSE m

\* MetricsCollector.track_satisfaction, the hour buckets
MutTrackSatisfactionHours(m, h, s, score, t) ==
    LET key == HourKey(t)
        b == IF key \in DOMAIN h THEN h[key] ELSE EmptyBucket
        b1 == IF s \in DOMAIN m THEN [b EXCEPT !.satisfactions = Append(@, score)] ELSE b
    IN [k \in DOMAIN h \cup {key} |-> IF k = key THEN b1 ELSE h[k]]

TrackSatisfactionHours(m, h, s, score, t) ==
    IF s \in DOMAIN m
    THEN LET key == HourKey(t)
             b == IF key \in DOMAIN h THEN h[key] ELSE EmptyBucket
             b1 == [b EXCEPT !.satisfactions = Append(@, score)]
         IN [k \in DOMAIN h \cup {key} |-> IF k = key THEN b1 ELSE h[k]]
    ELSE h

\* ------------------------------------------------ services/dialogue_service.py
\* config.MODEL_COSTS, in nano-dollars per token (0.01 $ per 1K is 10000)
MODEL_GPT4_PREVIEW == "gpt-4-1106-preview"
MODEL_UNLISTED == "a model MODEL_COSTS does not list"
ModelCosts(model) ==
    IF model = MODEL_GPT4_PREVIEW
    THEN [input |-> 10000, output |-> 30000]
    ELSE [input |-> 1500, output |-> 2000]      \* MODEL_COSTS["gpt-3.5-turbo"]

\* round(x, 6) of a cost in dollars: nano-dollars to micro-dollars, half to even
Round6(nano) ==
    LET q == nano \div 1000
        r == nano % 1000
    IN IF r > 500 \/ (r = 500 /\ q % 2 = 1) THEN q + 1 ELSE q

\* DialogueService._calculate_cost(usage, model)
CalculateCost(usage, model) ==
    LET costs == ModelCosts(model)
    IN Round6(usage.prompt_tokens * costs.input + usage.completion_tokens * costs.output)

\* generate_response's usage dict: zeros when the provider sent no usage
NoUsage == [prompt_tokens |-> 0, completion_tokens |-> 0, total_tokens |-> 0]
Usage(p, c) == [prompt_tokens |-> p, completion_tokens |-> c, total_tokens |-> p + c]

\* ---------------------------------------------------------- core/optimizer.py
\* getattr(settings, "cache_ttl", 3600): one tick
CacheTTL == 1

\* the cache's entry: (response, timestamp, tokens, cost)
CacheEntry(response, timestamp, tokens, cost) ==
    [response |-> response, timestamp |-> timestamp, tokens |-> tokens, cost |-> cost]

\* ResponseOptimizer.get_cached_response(cache_key) at time t: the optimizer
\* after the call and (response, tokens, cost), or None
GetCachedResponse(o, cache_key, t) ==
    IF ~o.enable_caching
    THEN [opt |-> o, val |-> None]
    ELSE IF cache_key \in DOMAIN o.response_cache
         THEN LET e == o.response_cache[cache_key]
              IN IF t - e.timestamp < CacheTTL
                 THEN [opt |-> o, val |-> Some(<<e.response, e.tokens, e.cost>>)]
                 ELSE [opt |-> [o EXCEPT !.response_cache =
                                   [k \in DOMAIN @ \ {cache_key} |-> @[k]]],
                       val |-> None]
         ELSE [opt |-> o, val |-> None]

\* ResponseOptimizer.cache_response(cache_key, response, tokens, cost) at time t
MutCacheResponse(o, cache_key, response, tokens, cost, t) ==
    [o EXCEPT !.response_cache =
        [k \in DOMAIN @ \cup {cache_key} |->
            IF k = cache_key THEN CacheEntry(response, t, tokens, cost) ELSE @[k]]]

CacheResponse(o, cache_key, response, tokens, cost, t) ==
    IF o.enable_caching
    THEN [o EXCEPT !.response_cache =
            [k \in DOMAIN @ \cup {cache_key} |->
                IF k = cache_key THEN CacheEntry(response, t, tokens, cost) ELSE @[k]]]
    ELSE o

\* ===================================================================== state
EmptyMap == [k \in {} |-> 0]
EmptyLog == [seed |-> <<>>, adds |-> <<>>]

IdleTurn ==
    [pc |-> "idle", sid |-> NoSuchId, start |-> 0, via |-> "",
     call |-> NoCall, request_type |-> NoType, confidence |-> 0]

\* the process once lifespan's startup is complete: MemoryStorage() has created
\* its cleanup task, which is scheduled (not yet run, or suspended in its
\* sleep); utc_offset is local time minus UTC, in hours
StartedProcess(utc_offset) ==
    [utc_offset |-> utc_offset,
     cleanup_task |-> "scheduled",
     cancel_requested |-> FALSE,
     close |-> "idle",
     lifespan |-> "serving",
     llm_client_closed |-> FALSE]

\* no request in flight, nothing answered yet, no provider call counted
NoRequests == [feedback |-> None, expired |-> {}, invoked |-> 0, classifies |-> FALSE]

Init ==
    /\ now = 0
    /\ sessions = EmptyMap
    /\ nextId = 1
    /\ published = {}
    /\ turn = [t \in Turns |-> IdleTurn]
    /\ metrics = EmptyMap
    /\ hourly = EmptyMap
    /\ ret = [op |-> "none"]
    /\ log = [s \in Ids |-> EmptyLog]
    /\ call = NoCall
    /\ cls = None
    /\ opt = [enable_caching |-> FALSE, response_cache |-> EmptyMap]
    /\ proc = StartedProcess(0)
    /\ api = NoRequests

\* ------------------------------------------------------------------ inputs
\* the text each request slot sends
TurnText == [t \in Turns |-> IF t = "t1" THEN "my order never arrived" ELSE "thanks"]
ReplyTexts == {"we are sorry"}
\* the ids a caller can name: one it was given, or one that names no session
Callable == published \cup {NoSuchId}
\* the clock may move by one tick between two reads inside an operation
Later(t) == {u \in {t, t + 1} : u <= MaxTime}

\* the coroutines suspended on the provider for session s
InFlight(s) == {t \in Turns : turn[t].pc \in {"classify", "generate"} /\ turn[t].sid = s}
\* the bound on a history: room for n more messages besides the replies in flight
HasRoom(s, n) ==
    s \in DOMAIN sessions =>
        Len(sessions[s].messages) + Cardinality(InFlight(s)) + n <= MaxMsgs

\* the record of the add_message calls that returned, kept for the stored sessions
LogFor(map, l) == [s \in Ids |-> IF s \in DOMAIN map THEN l[s] ELSE EmptyLog]
Logged(l, s, role, content, err) ==
    IF err = NoError /\ s \in Ids
    THEN [l EXCEPT ![s].adds = Append(@, Message(role, content))]
    ELSE l

\* ------------------------------------------------------------------- clock
Tick ==
    /\ now < MaxTime
    /\ now' = now + 1
    /\ UNCHANGED <<sessions, nextId, published, turn, metrics, hourly, ret, log, call, cls, opt, proc, api>>

\* ------------------------------------------------- the store's operations
\* MemoryStorage.store_session(session_id, session)
StoragePut(s, sess) ==
    /\ sessions' = StoreSession(sessions, s, sess)
    /\ log' = LogFor(sessions', [log EXCEPT ![s] = [seed |-> sess.messages, adds |-> <<>>]])
    /\ ret' = [op |-> "store_session", sid |-> s, err |-> NoError]
    /\ UNCHANGED <<now, nextId, published, turn, metrics, hourly, call, cls, opt, proc, api>>

\* MemoryStorage.get_session(session_id)
StorageGet(s) ==
    /\ LET r == StorageGetSession(sessions, s, now)
       IN /\ sessions' = r.map
          /\ ret' = [op |-> "storage.get_session", sid |-> s, err |-> NoError,
                     val |-> r.val, had |-> s \in DOMAIN sessions]
    /\ log' = LogFor(sessions', log)
    /\ UNCHANGED <<now, nextId, published, turn, metrics, hourly, call, cls, opt, proc, api>>

\* MemoryStorage.delete_session(session_id)
StorageDelete(s) ==
    /\ sessions' = DeleteSession(sessions, s)
    /\ log' = LogFor(sessions', log)
    /\ ret' = [op |-> "delete_session", sid |-> s, err |-> NoError,
               deleted |-> s \in DOMAIN sessions]
    /\ UNCHANGED <<now, nextId, published, turn, metrics, hourly, call, cls, opt, proc, api>>

\* MemoryStorage.get_active_sessions(), as detailed_health_check calls it
ListActive ==
    /\ LET r == GetActiveSessions(sessions, now)
       IN /\ sessions' = r.map
          /\ ret' = [op |-> "get_active_sessions", err |-> NoError, val |-> r.val,
                     had |-> DOMAIN sessions]
    /\ log' = LogFor(sessions', log)
    /\ UNCHANGED <<now, nextId, published, turn, metrics, hourly, call, cls, opt, proc, api>>

\* one pass of _cleanup_expired_sessions after its sleep: the expired are deleted
MutSweep ==
    /\ proc.cleanup_task = "scheduled"
    /\ ~proc.cancel_requested
    /\ \E k \in DOMAIN sessions :
          /\ IsExpired(sessions[k], now)
          /\ sessions' = DeleteSession(sessions, k)
    /\ log' = LogFor(sessions', log)
    /\ ret' = [op |-> "sweep", err |-> NoError, had |-> DOMAIN sessions]
    /\ UNCHANGED <<now, nextId, published, turn, metrics, hourly, call, cls, opt, proc, api>>

Sweep ==
    /\ proc.cleanup_task = "scheduled"
    /\ ~proc.cancel_requested
    /\ \E k \in DOMAIN sessions : IsExpired(sessions[k], now)
    /\ sessions' = GetActiveSessions(sessions, now).map
    /\ log' = LogFor(sessions', log)
    /\ ret' = [op |-> "sweep", err |-> NoError, had |-> DOMAIN sessions]
    /\ UNCHANGED <<now, nextId, published, turn, metrics, hourly, call, cls, opt, proc, api>>

\* ------------------------------------------------- the manager's operations
\* DialogueManager.create_session(initial_message)
CreateSession(initial_message) ==
    /\ nextId \in Ids
    /\ LET s == nextId
           s0 == NewSession(now)
           sess == IF initial_message # ""
                   THEN SessionAddMessage(s0, ROLE_USER, initial_message, now)
                   ELSE s0
       IN /\ sessions' = StoreSession(sessions, s, sess)
          /\ log' = [log EXCEPT ![s].seed = sess.messages]
          /\ published' = published \cup {s}
          /\ ret' = [op |-> "create_session", sid |-> s, err |-> NoError,
                     seeded |-> initial_message # ""]
    /\ nextId' = nextId + 1
    /\ UNCHANGED <<now, turn, metrics, hourly, call, cls, opt, proc, api>>

\* DialogueManager.get_session(session_id)
GetSession(s) ==
    /\ s \in Callable
    /\ \E t2 \in Later(now) :
          LET r == MgrGetSession(sessions, s, now, t2)
          IN /\ sessions' = r.map
             /\ now' = t2
             /\ ret' = [op |-> "get_session", sid |-> s, err |-> r.err, val |-> r.val,
                        had |-> s \in DOMAIN sessions]
    /\ log' = LogFor(sessions', log)
    /\ UNCHANGED <<nextId, published, turn, metrics, hourly, call, cls, opt, proc, api>>

\* DialogueManager.add_message(session_id, role, content)
AddMessage(s, role, content) ==
    /\ s \in Callable
    /\ HasRoom(s, 1)
    /\ \E t2 \in Later(now) :
          LET r == MgrAddMessage(sessions, s, role, content, now, t2)
          IN /\ sessions' = r.map
             /\ now' = t2
             /\ log' = LogFor(r.map, Logged(log, s, role, content, r.err))
             /\ ret' = [op |-> "add_message", sid |-> s, err |-> r.err]
    /\ UNCHANGED <<nextId, published, turn, metrics, hourly, call, cls, opt, proc, api>>

\* DialogueManager.update_context(session_id, request_type, confidence,
\* **context_updates)
UpdateContext(s, request_type, confidence, context_updates) ==
    /\ s \in Callable
    /\ \E t2 \in Later(now) :
          LET r == MgrUpdateContext(sessions, s, request_type, confidence,
                                    context_updates, now, t2)
          IN /\ sessions' = r.map
             /\ now' = t2
             /\ ret' = [op |-> "update_context", sid |-> s, err |-> r.err]
    /\ log' = LogFor(sessions', log)
    /\ UNCHANGED <<nextId, published, turn, metrics, hourly, call, cls, opt, proc, api>>

\* DialogueManager.close_session(session_id, status)
CloseSession(s, status) ==
    /\ s \in Callable
    /\ \E t2 \in Later(now) :
          LET r == MgrCloseSession(sessions, s, status, now, t2)
          IN /\ sessions' = r.map
             /\ now' = t2
             /\ ret' = [op |-> "close_session", sid |-> s, err |-> r.err,
                        status |-> status]
    /\ log' = LogFor(sessions', log)
    /\ UNCHANGED <<nextId, published, turn, metrics, hourly, call, cls, opt, proc, api>>

\* ------------------------------------------ DialogueService.process_message
\* what process_message hands back, or raises, to its caller
TurnReturn(t, s, via, err, raw, response, request_type, confidence, response_time) ==
    [op |-> "process_message", turn |-> t, sid |-> s, via |-> via, err |-> err,
     raw |-> raw, response |-> response, request_type |-> request_type,
     confidence |-> confidence, response_time |-> response_time]

TurnRaises(t, err, raw) ==
    TurnReturn(t, turn[t].sid, turn[t].via, err, raw, "", NoType, 0, 0)

\* process_message raised before any provider call; `began`: its start_time
TurnFailsAtStart(t, s, via, err, began) ==
    [op |-> "process_message", turn |-> t, sid |-> s, via |-> via, err |-> err,
     raw |-> "none", response |-> "", request_type |-> NoType, confidence |-> 0,
     response_time |-> 0, began |-> began]

Suspended(t, s) == [op |-> "suspended", turn |-> t, sid |-> s, err |-> NoError]

\* line 76: `if not session.context.request_type`
MutNeedsClassification(sess) == sess.response_count = 0

NeedsClassification(sess) == sess.request_type = NoType

\* lines 64-73: get_session, then add_message of the user's text
MutBeginTurnIfActive(map, s, text, t1, t2, t3) ==
    LET g == MgrGetSession(map, s, t1, t2)
    IN IF g.err # NoError THEN g
       ELSE IF g.val[1].status # STATUS_ACTIVE
            THEN [map |-> g.map, val |-> None, err |-> SessionNotFound]
            ELSE MgrAddMessage(g.map, s, ROLE_USER, text, t2, t3)

BeginTurn(map, s, text, t1, t2, t3) ==
    LET g == MgrGetSession(map, s, t1, t2)
    IN IF g.err # NoError THEN g
       ELSE MgrAddMessage(g.map, s, ROLE_USER, text, t2, t3)

\* lines 64-95, to the first await of the provider: the classification call
\* when the session has no request_type, else the generation call
ProcessMessageStart(t, s, via, map, l) ==
    \E t2 \in Later(now) : \E t3 \in Later(t2) :
        LET r == BeginTurn(map, s, TurnText[t], now, t2, t3)
        IN /\ now' = t3
           /\ sessions' = r.map
           /\ log' = LogFor(r.map, Logged(l, s, ROLE_USER, TurnText[t], r.err))
           /\ IF r.err # NoError
              THEN /\ turn' = turn
                   /\ ret' = TurnFailsAtStart(t, s, via, r.err, now)
              ELSE /\ turn' = [turn EXCEPT ![t] =
                          [pc |-> IF NeedsClassification(r.val[1])
                                  THEN "classify" ELSE "generate",
                           sid |-> s, start |-> now, via |-> via,
                           call |-> CallStart,
                           request_type |-> r.val[1].request_type,
                           confidence |-> r.val[1].confidence]]
                   /\ ret' = Suspended(t, s)

\* send_message: process_message on the id the caller names
SendMessage(t, s) ==
    /\ turn[t].pc = "idle"
    /\ s \in Callable
    /\ HasRoom(s, 2)
    /\ ProcessMessageStart(t, s, "send", sessions, log)
    /\ UNCHANGED <<nextId, published, metrics, hourly, call, cls, opt, proc, api>>

\* start_dialogue: create_session(initial_message), then process_message on the
\* new id with the same text; the id reaches the caller with the response
StartDialogue(t) ==
    /\ turn[t].pc = "idle"
    /\ nextId \in Ids
    /\ LET s == nextId
           sess == SessionAddMessage(NewSession(now), ROLE_USER, TurnText[t], now)
       IN ProcessMessageStart(t, s, "start", StoreSession(sessions, s, sess),
                              [log EXCEPT ![s].seed = sess.messages])
    /\ nextId' = nextId + 1
    /\ UNCHANGED <<published, metrics, hourly, call, cls, opt, proc, api>>

\* lines 77-95, once classify_message has its call's outcome: update_context,
\* track_session_start, then the generation call
AfterClassify(t, c, raw) ==
    LET s == turn[t].sid
        r == ClassifyMessage(c)
    IN \E t2 \in Later(now) :
        LET u == MgrUpdateContext(sessions, s, r.request_type, Some(r.confidence), <<>>,
                                  now, t2)
        IN /\ now' = t2
           /\ sessions' = u.map
           /\ log' = LogFor(u.map, log)
           /\ IF u.err # NoError
              THEN /\ turn' = [turn EXCEPT ![t] = IdleTurn]
                   /\ ret' = TurnRaises(t, u.err, raw)
                   /\ UNCHANGED metrics
              ELSE /\ turn' = [turn EXCEPT ![t].pc = "generate",
                                           ![t].call = CallStart,
                                           ![t].request_type = r.request_type,
                                           ![t].confidence = r.confidence]
                   /\ ret' = Suspended(t, s)
                   /\ metrics' = TrackSessionStart(metrics, s, r.request_type,
                                                   r.confidence, UtcNow(t2))
           /\ UNCHANGED <<nextId, published, hourly, call, cls, opt, proc, api>>

\* The call a turn awaits, from its first attempt to its end.  The attempts
\* that raise before the last one change nothing another coroutine can see, so
\* the call is one step of the turn: `fails` are the errors of the attempts
\* that raised, in order, and `reply` is what the next attempt returned, if
\* the retry policy allowed one.
RECURSIVE RunCall(_, _, _)
RunCall(c, fails, reply) ==
    IF c.status # "pending" THEN c
    ELSE IF fails = <<>> THEN AttemptReturned(c, reply)
    ELSE RunCall(AttemptFailed(c, Head(fails)), Tail(fails), reply)

\* the provider call of classify_request ended
ClassifyEnds(t, fails, content) ==
    /\ turn[t].pc = "classify"
    /\ LET c == RunCall(turn[t].call, fails, content)
       IN AfterClassify(t, c, c.last)

\* the provider call of _generate_contextual_response raised on every attempt:
\* generate_response's error leaves process_message
MutGenerateRaises(t, fails) ==
    /\ turn[t].pc = "generate"
    /\ LET c == RunCall(turn[t].call, fails, "")
           s == turn[t].sid
       IN /\ c.status = "raised"
          /\ turn' = [turn EXCEPT ![t] = IdleTurn]
          /\ ret' = TurnRaises(t, c.error, c.last)
          /\ sessions' = IF s \in DOMAIN sessions
                         THEN [sessions EXCEPT ![s].messages = SubSeq(@, 1, Len(@) - 1)]
                         ELSE sessions
    /\ UNCHANGED <<now, nextId, published, metrics, hourly, log, call, cls, opt, proc, api>>

GenerateRaises(t, fails) ==
    /\ turn[t].pc = "generate"
    /\ LET c == RunCall(turn[t].call, fails, "")
       IN /\ c.status = "raised"
          /\ turn' = [turn EXCEPT ![t] = IdleTurn]
          /\ ret' = TurnRaises(t, c.error, c.last)
    /\ UNCHANGED <<now, sessions, nextId, published, metrics, hourly, log, call, cls, opt, proc, api>>

\* the provider answered the generation prompt: lines 95-123, add_message of
\* the reply, response time, cost, track_response
GenerateReplies(t, fails, content, usage, model) ==
    /\ turn[t].pc = "generate"
    /\ RunCall(turn[t].call, fails, content).status = "returned"
    /\ LET s == turn[t].sid
       IN \E t2 \in Later(now) :
           LET a == MgrAddMessage(sessions, s, ROLE_ASSISTANT, content, now, t2)
               response_time == t2 - turn[t].start
               cost == CalculateCost(usage, model)
           IN /\ now' = t2
              /\ sessions' = a.map
              /\ log' = LogFor(a.map, Logged(log, s, ROLE_ASSISTANT, content, a.err))
              /\ turn' = [turn EXCEPT ![t] = IdleTurn]
              /\ IF a.err # NoError
                 THEN /\ ret' = TurnRaises(t, a.err, "reply")
                      /\ UNCHANGED <<metrics, hourly, published>>
                 ELSE /\ ret' = TurnReturn(t, s, turn[t].via, NoError, "reply", content,
                                           turn[t].request_type, turn[t].confidence,
                                           response_time)
                      /\ metrics' = TrackResponseRows(metrics, s, response_time,
                                                      usage.total_tokens, cost)
                      /\ hourly' = TrackResponseHours(metrics, hourly, s, response_time,
                                                      usage.total_tokens, cost, t2)
                      /\ published' = IF turn[t].via = "start"
                                      THEN published \cup {s} ELSE published
    /\ UNCHANGED <<nextId, call, cls, opt, proc, api>>

\* ----------------------------------------------------------- specifications
\* replies the provider gives to the classification prompt during a turn
TurnClassifications ==
    {JsonDict(JStr("complaint"), JNum(90)), JsonDict(JStr("billing"), JNum(90)), NotJson}
\* the usage and model of the replies to the generation prompt
Generations == {<<Usage(200, 80), MODEL_GPT4_PREVIEW>>}

\* the errors of the attempts of one call: none, one or two before a reply,
\* three when the call gives up
Retried == {<<>>, <<RAW_TIMEOUT>>, <<RAW_OTHER, RAW_RATE_LIMIT>>}
Exhausted == {<<a, b, c>> : a \in {RAW_TIMEOUT}, b \in {RAW_TIMEOUT, RAW_OTHER}, c \in RawFailures}

\* one session is created in a run of the turn-level specification
FirstId == nextId = 1

\* the core as its callers drive it: a session, turns on it, the store's sweep
Next ==
    \/ Tick
    \/ \E m \in {"", "hello"} : FirstId /\ CreateSession(m)
    \/ \E s \in AllIds : CloseSession(s, STATUS_COMPLETED)
    \/ Sweep
    \/ \E t \in Turns, s \in AllIds : SendMessage(t, s)
    \/ \E t \in Turns : FirstId /\ StartDialogue(t)
    \/ \E t \in Turns, f \in Retried, c \in TurnClassifications : ClassifyEnds(t, f, c)
    \/ \E t \in Turns, f \in Exhausted : ClassifyEnds(t, f, NotJson)
    \/ \E t \in Turns, f \in Exhausted : GenerateRaises(t, f)
    \/ \E t \in Turns, f \in Retried, r \in ReplyTexts, g \in Generations :
          GenerateReplies(t, f, r, g[1], g[2])

Spec == Init /\ [][Next]_vars

\* ------------------------------------------------------------ the store alone
\* the sessions a caller of the store puts
PutSessions ==
    {NewSession(now),
     [NewSession(now) EXCEPT !.expires_at = None],
     SessionAddMessage(NewSession(now), ROLE_USER, "hello", now)}

NextStore ==
    \/ Tick
    \/ \E s \in Ids, sess \in PutSessions : StoragePut(s, sess)
    \/ \E s \in AllIds : StorageGet(s)
    \/ \E s \in AllIds : StorageDelete(s)
    \/ ListActive
    \/ Sweep

SpecStore == Init /\ [][NextStore]_vars

\* the cleanup task is never starved: its sleep ends and the event loop runs
\* its pass
SpecStoreFair == Init /\ [][NextStore]_vars /\ WF_vars(Sweep)

\* ---------------------------------------------------------- the manager alone
\* the context updates a caller makes
ContextUpdates == {<<"sales", None>>, <<NoType, Some(0)>>}

NextManager ==
    \/ Tick
    \/ \E m \in {"", "hello"} : FirstId /\ CreateSession(m)
    \/ \E s \in AllIds : GetSession(s)
    \/ \E s \in AllIds, role \in {ROLE_USER, ROLE_ASSISTANT} : AddMessage(s, role, "text")
    \/ \E s \in AllIds, u \in ContextUpdates : UpdateContext(s, u[1], u[2], <<>>)
    \/ \E s \in AllIds, st \in DialogueStatus : CloseSession(s, st)
    \/ Sweep

SpecManager == Init /\ [][NextManager]_vars

\* ------------------------------------------- the classification stage alone
\* the replies the provider can give to the classification prompt
TypeFields ==
    {JStr(x) : x \in RequestTypes \cup {"Complaint", "billing"}} \cup {JNull, JMissing, JNum(1)}
ConfidenceFields ==
    {JNum(x) : x \in {0, 50, 90, 100, 150, -20}}
        \cup {JNumStr(90), JStr("high"), JNull, JMissing}
ClassifyContents ==
    {NotJson, EmptyReply, NotDict}
        \cup {JsonDict(ty, cf) : ty \in TypeFields, cf \in ConfidenceFields}

\* classify_request calls generate_response
CallBegins ==
    /\ call = NoCall
    /\ call' = CallStart
    /\ UNCHANGED <<now, sessions, nextId, published, turn, metrics, hourly, ret, log, cls, opt, proc, api>>

\* an attempt raised
CallAttemptFails(raw) ==
    /\ call.status = "pending"
    /\ call' = AttemptFailed(call, raw)
    /\ UNCHANGED <<now, sessions, nextId, published, turn, metrics, hourly, ret, log, cls, opt, proc, api>>

\* an attempt returned the provider's reply
CallAttemptReturns(content) ==
    /\ call.status = "pending"
    /\ call' = AttemptReturned(call, content)
    /\ UNCHANGED <<now, sessions, nextId, published, turn, metrics, hourly, ret, log, cls, opt, proc, api>>

\* classify_message returns
ClassifyReturns ==
    /\ call.status \in {"returned", "raised"}
    /\ cls = None
    /\ cls' = Some(ClassifyMessage(call))
    /\ UNCHANGED <<now, sessions, nextId, published, turn, metrics, hourly, ret, log, call, opt, proc, api>>

NextClassify ==
    \/ CallBegins
    \/ \E raw \in RawFailures : CallAttemptFails(raw)
    \/ \E content \in ClassifyContents : CallAttemptReturns(content)
    \/ ClassifyReturns

SpecClassify == Init /\ [][NextClassify]_vars

\* ------------------------------------------------- the transport's answers
\* the status_code an exception of the application carries
StatusCodeOf(err) ==
    IF err = SessionNotFound THEN 404
    ELSE IF err = LLMRateLimit THEN 429
    ELSE IF err = LLMTimeout THEN 504
    ELSE 500

\* the kind an answer carries when only the catch-all clause matched
GenericFailure == "Exception"

\* the except clauses an endpoint has besides `except Exception`
HandledKinds(endpoint) ==
    IF endpoint = "send_message" THEN {SessionNotFound} \cup LLMErrors
    ELSE IF endpoint = "start_dialogue" THEN LLMErrors
    ELSE IF endpoint = "add_feedback" THEN {}
    ELSE {SessionNotFound}

\* the answer of an endpoint whose call into the core ended with err
Respond(endpoint, err) ==
    IF err = NoError THEN [status_code |-> 200, kind |-> NoError]
    ELSE IF err \in HandledKinds(endpoint)
    THEN [status_code |-> StatusCodeOf(err), kind |-> err]
    ELSE [status_code |-> 500, kind |-> GenericFailure]

\* ------------------------------------------------- turns one after another
\* the feedback samples an hour bucket may hold
MaxFeedback == 1

\* add_feedback(session_id, satisfaction_score): get_session, set the score,
\* update_session, track_satisfaction; any exception becomes HTTP 500
AddFeedback(s, score) ==
    /\ s \in Callable
    /\ \A k \in DOMAIN hourly : Len(hourly[k].satisfactions) < MaxFeedback
    /\ \E t2 \in Later(now) :
          LET g == MgrGetSession(sessions, s, now, t2)
          IN /\ now' = t2
             /\ IF g.err # NoError
                THEN /\ sessions' = g.map
                     /\ ret' = [op |-> "add_feedback", sid |-> s, err |-> g.err,
                                http |-> Respond("add_feedback", g.err).status_code]
                     /\ UNCHANGED <<metrics, hourly>>
                ELSE /\ sessions' = UpdateSession(g.map, s,
                                        [g.val[1] EXCEPT !.satisfaction = Some(score)], t2)
                     /\ metrics' = TrackSatisfactionRows(metrics, s, score)
                     /\ hourly' = TrackSatisfactionHours(metrics, hourly, s, score, t2)
                     /\ ret' = [op |-> "add_feedback", sid |-> s, err |-> NoError,
                                http |-> Respond("add_feedback", NoError).status_code]
    /\ log' = LogFor(sessions', log)
    /\ UNCHANGED <<nextId, published, turn, call, cls, opt, proc, api>>

\* the replies to the classification prompt, one with a confidence above 1
SeqClassifications ==
    {JsonDict(JStr("complaint"), JNum(90)), JsonDict(JStr("sales"), JNum(150)), NotJson}

\* one request slot: every turn starts after the turn before it has ended
NextSequential ==
    \/ Tick
    \/ \E m \in {"", "hello"} : FirstId /\ CreateSession(m)
    \/ FirstId /\ StartDialogue("t1")
    \/ \E s \in AllIds : SendMessage("t1", s)
    \/ \E f \in Retried, c \in SeqClassifications : ClassifyEnds("t1", f, c)
    \/ \E f \in Exhausted : ClassifyEnds("t1", f, NotJson)
    \/ \E f \in Exhausted : GenerateRaises("t1", f)
    \/ \E f \in Retried, r \in ReplyTexts, g \in Generations :
          GenerateReplies("t1", f, r, g[1], g[2])
    \/ \E s \in AllIds : CloseSession(s, STATUS_COMPLETED)
    \/ \E s \in AllIds : AddFeedback(s, 5)
    \/ Sweep

SpecSequential == Init /\ [][NextSequential]_vars

\* --------------------------------------------------------- the cache alone
\* the keys and the responses a caller of the optimizer uses
CacheKeys == {"key a", "key b"}
CachedResponses == {<<"we are sorry", 280, 4400>>, <<"hello", 10, 0>>}

\* the setting enable_caching is switched
SetCaching(b) ==
    /\ opt.enable_caching # b
    /\ opt' = [opt EXCEPT !.enable_caching = b]
    /\ ret' = [op |-> "settings", err |-> NoError]
    /\ UNCHANGED <<now, sessions, nextId, published, turn, metrics, hourly, log, call, cls, proc, api>>

\* ResponseOptimizer.get_cached_response(cache_key)
GetCached(cache_key) ==
    /\ LET r == GetCachedResponse(opt, cache_key, now)
       IN /\ opt' = r.opt
          /\ ret' = [op |-> "get_cached_response", key |-> cache_key, err |-> NoError,
                     val |-> r.val]
    /\ UNCHANGED <<now, sessions, nextId, published, turn, metrics, hourly, log, call, cls, proc, api>>

\* ResponseOptimizer.cache_response(cache_key, response, tokens, cost)
PutCached(cache_key, response, tokens, cost) ==
    /\ opt' = CacheResponse(opt, cache_key, response, tokens, cost, now)
    /\ ret' = [op |-> "cache_response", key |-> cache_key, err |-> NoError,
               enabled |-> opt.enable_caching]
    /\ UNCHANGED <<now, sessions, nextId, published, turn, metrics, hourly, log, call, cls, proc, api>>

NextCache ==
    \/ Tick
    \/ \E b \in BOOLEAN : SetCaching(b)
    \/ \E k \in CacheKeys : GetCached(k)
    \/ \E k \in CacheKeys, e \in CachedResponses : PutCached(k, e[1], e[2], e[3])

SpecCache == Init /\ [][NextCache]_vars

\* -------------------------------------------------- a turn beside the cache
\* PromptTemplate.get_system_prompt: one prompt per request type, the general
\* one for anything else
SystemPrompt(request_type) ==
    IF request_type \in RequestTypes
    THEN "system prompt for " \o request_type
    ELSE "system prompt for general"

\* seq[-n:]
LastN(seq, n) ==
    SubSeq(seq, IF Len(seq) > n THEN Len(seq) - n + 1 ELSE 1, Len(seq))

\* get_recent_messages(limit=10)
RecentLimit == 10
\* get_cache_key: messages[-3:]
KeyMessages == 3
\* openai_temperature, in hundredths
Temperature == 70

\* _generate_contextual_response: the messages handed to generate_response, the
\* system prompt (no customer name or session data: the context prompt is
\* empty) and the recent history
GenerationMessages(sess) ==
    <<Message(ROLE_SYSTEM, SystemPrompt(sess.request_type))>>
        \o LastN(sess.messages, RecentLimit)

\* ResponseOptimizer.get_cache_key: the digest of the last three messages, the
\* model and the temperature, kept as the data it digests
GetCacheKey(messages, model, temperature) ==
    [messages |-> LastN(messages, KeyMessages), model |-> model,
     temperature |-> temperature]

\* the key of the generation request a turn with the given text on session s
\* makes, once the session's request type is request_type
TurnCacheKey(sess, text, request_type) ==
    GetCacheKey(
        GenerationMessages(
            [sess EXCEPT !.messages = Append(@, Message(ROLE_USER, text)),
                         !.request_type = IF @ = NoType THEN request_type ELSE @]),
        MODEL_GPT4_PREVIEW, Temperature)

\* a caller of the optimizer caches a reply to the request the next turn on
\* session s will make
CacheReplyFor(s, request_type) ==
    /\ s \in DOMAIN sessions
    /\ turn["t1"].pc = "idle"
    /\ PutCached(TurnCacheKey(sessions[s], TurnText["t1"], request_type),
                 "we are sorry", 280, 4400)

NextCachedTurn ==
    \/ Tick
    \/ FirstId /\ CreateSession("")
    \/ \E b \in BOOLEAN : SetCaching(b)
    \/ \E s \in AllIds, ty \in {"complaint", "general"} : CacheReplyFor(s, ty)
    \/ \E s \in AllIds : SendMessage("t1", s)
    \/ \E f \in Retried, c \in SeqClassifications : ClassifyEnds("t1", f, c)
    \/ \E f \in Exhausted : ClassifyEnds("t1", f, NotJson)
    \/ \E f \in Exhausted : GenerateRaises("t1", f)
    \/ \E f \in Retried, r \in ReplyTexts, g \in Generations :
          GenerateReplies("t1", f, r, g[1], g[2])

SpecCachedTurn == Init /\ [][NextCachedTurn]_vars

\* ------------------------------------------------------- the model selection
MODEL_GPT35_FAST == "gpt-3.5-turbo-1106"

\* a history longer than this many messages counts as a complex case
LongHistory == 10
\* the longest history a selection is asked about
MaxHistory == 11

\* getattr(settings, "openai_model_fast", settings.openai_model)
FastModel(settings) ==
    IF settings.openai_model_fast = None
    THEN settings.openai_model
    ELSE settings.openai_model_fast[1]

\* ResponseOptimizer.select_optimal_model(session)
SelectOptimalModel(settings, session) ==
    IF ~settings.cost_optimization
    THEN settings.openai_model
    ELSE IF session.request_type = "general"
         THEN FastModel(settings)
         ELSE IF session.priority \in {PRIORITY_HIGH} \/ Len(session.messages) > LongHistory
              THEN settings.openai_model
              ELSE FastModel(settings)

\* the settings select_optimal_model reads, and the sessions it is asked about
SelectSettings ==
    [cost_optimization : BOOLEAN,
     openai_model : {MODEL_GPT4_PREVIEW},
     openai_model_fast : {None, Some(MODEL_GPT35_FAST)}]
SelectSessions ==
    [request_type : RequestTypes \cup {NoType},
     priority : Priority,
     messages : {[i \in 1..n |-> Message(ROLE_USER, "text")] : n \in 0..MaxHistory}]

\* a process that has stored nothing yet: what its caller holds (the arguments
\* of a call of a pure function) and the zone its clock is in
InitWith(arguments) ==
    /\ now = 0
    /\ sessions = EmptyMap
    /\ nextId = 1
    /\ published = {}
    /\ turn = [t \in Turns |-> IdleTurn]
    /\ metrics = EmptyMap
    /\ hourly = EmptyMap
    /\ ret = arguments.ret
    /\ log = [s \in Ids |-> EmptyLog]
    /\ call = NoCall
    /\ cls = None
    /\ opt = [enable_caching |-> FALSE, response_cache |-> EmptyMap]
    /\ proc = StartedProcess(arguments.utc_offset)
    /\ api = NoRequests

Arguments(r) == [ret |-> r, utc_offset |-> 0]

InitSelect ==
    \E settings \in SelectSettings, session \in SelectSessions :
        InitWith(Arguments([op |-> "arguments", settings |-> settings,
                            session |-> session]))

SelectModel ==
    /\ ret.op = "arguments"
    /\ ret' = [op |-> "select_optimal_model", err |-> NoError,
               settings |-> ret.settings, session |-> ret.session,
               val |-> SelectOptimalModel(ret.settings, ret.session)]
    /\ UNCHANGED <<now, sessions, nextId, published, turn, metrics, hourly, log, call,
                   cls, opt, proc, api>>

NextSelect == SelectModel

SpecSelect == InitSelect /\ [][NextSelect]_vars

\* ----------------------------------------------------- the context compression
\* a message body is kept as which text it is and how many of its characters
\* are there, followed by a tail
Body(text, len) == [text |-> text, len |-> len, tail |-> ""]

\* the length above which compress_context cuts a body
TruncateAt == 500
\* getattr(settings, "max_context_messages", 10)
DefaultMaxContext == 10
\* the longest history handed to compress_context
MaxInput == 4

\* content[:500] + "..." if len(content) > 500 else content
Truncate(content) ==
    IF content.len > TruncateAt
    THEN [text |-> content.text, len |-> TruncateAt, tail |-> "..."]
    ELSE content

IsSystem(msg) == msg.role = ROLE_SYSTEM
NotSystem(msg) == msg.role # ROLE_SYSTEM

\* ResponseOptimizer.compress_context(messages): the first system message as it
\* is, then the non-system messages among messages[-max_context_messages:],
\* each truncated
CompressContext(messages, max_context_messages) ==
    LET systems == SelectSeq(messages, IsSystem)
        head == IF systems = <<>> THEN <<>> ELSE <<systems[1]>>
        recent_messages == LastN(messages, max_context_messages)
        kept == SelectSeq(recent_messages, NotSystem)
    IN head \o [i \in 1..Len(kept) |->
                   Message(kept[i].role, Truncate(kept[i].content))]

\* the histories and the limits compress_context is called with
CompressMessages ==
    {Message(ROLE_SYSTEM, Body("you are an agent", 20)),
     Message(ROLE_SYSTEM, Body("a long system prompt", 600)),
     Message(ROLE_USER, Body("a question", 500)),
     Message(ROLE_USER, Body("a long question", 501)),
     Message(ROLE_ASSISTANT, Body("an answer", 3)),
     Message(ROLE_ASSISTANT, Body("a long answer", 1000))}
CompressInputs ==
    UNION {[1..n -> CompressMessages] : n \in 0..MaxInput}
ContextLimits == {1, 2, DefaultMaxContext}

InitCompress ==
    \E messages \in CompressInputs, n \in ContextLimits :
        InitWith(Arguments([op |-> "arguments", messages |-> messages, limit |-> n]))

Compress ==
    /\ ret.op = "arguments"
    /\ ret' = [op |-> "compress_context", err |-> NoError, messages |-> ret.messages,
               limit |-> ret.limit, val |-> CompressContext(ret.messages, ret.limit)]
    /\ UNCHANGED <<now, sessions, nextId, published, turn, metrics, hourly, log, call,
                   cls, opt, proc, api>>

NextCompress == Compress

SpecCompress == InitCompress /\ [][NextCompress]_vars

\* ------------------------------------------------- the metrics collector alone
\* timedelta(hours=24)
AnalyticsWindow == 24 * TicksPerHour
\* classification_confidence > 0.8, in hundredths
HighConfidence == 80
\* the collector is driven and read every twelve hours, at most this many times
HalfDay == 12 * TicksPerHour
MaxHalfDays == 2
\* response samples and satisfaction samples the collector is given
MaxSamples == 1
\* local time minus UTC, in hours, of the zones the process may run in
UtcOffsets == {-12, 0, 14}

RECURSIVE SumOf(_, _, _)
SumOf(m, keys, field) ==
    IF keys = {} THEN 0
    ELSE LET k == CHOOSE x \in keys : TRUE
         IN m[k][field] + SumOf(m, keys \ {k}, field)

RECURSIVE SumSeq(_)
SumSeq(seq) == IF seq = <<>> THEN 0 ELSE Head(seq) + SumSeq(Tail(seq))

\* round(x, 4) of a cost in dollars, kept in micro-dollars: half to even
Round4(micro) ==
    LET q == micro \div 100
        r == micro % 100
    IN 100 * (IF r > 50 \/ (r = 50 /\ q % 2 = 1) THEN q + 1 ELSE q)

\* statistics.mean, kept as the sum and the count
Mean(sum, count) == [sum |-> sum, count |-> count]

\* MetricsCollector.get_analytics() when datetime.now() reads t
GetAnalytics(m, h, t) ==
    LET recent_sessions == {k \in DOMAIN m : t - m[k].created_at < AnalyticsWindow}
        samples == SumOf([k \in recent_sessions |->
                             [n |-> Len(m[k].response_times)]], recent_sessions, "n")
        sum_times == SumOf([k \in recent_sessions |->
                               [n |-> SumSeq(m[k].response_times)]], recent_sessions, "n")
        rated == {k \in recent_sessions : m[k].satisfaction # None}
        high_confidence_sessions ==
            Cardinality({k \in recent_sessions : m[k].confidence > HighConfidence})
    IN IF recent_sessions = {}
       THEN [total_sessions |-> 0, avg_response_time_ms |-> Mean(0, 1),
             total_tokens_used |-> 0, total_cost_usd |-> 0, avg_satisfaction |-> None,
             classification_accuracy |-> Mean(0, 1), hourly_breakdown |-> EmptyMap]
       ELSE [total_sessions |-> Cardinality(recent_sessions),
             avg_response_time_ms |->
                 IF samples > 0 THEN Mean(sum_times, samples) ELSE Mean(0, 1),
             total_tokens_used |-> SumOf(m, recent_sessions, "tokens_used"),
             total_cost_usd |-> Round4(SumOf(m, recent_sessions, "total_cost")),
             avg_satisfaction |->
                 IF rated # {}
                 THEN Some(Mean(SumOf([k \in rated |-> [n |-> m[k].satisfaction[1]]],
                                      rated, "n"),
                                Cardinality(rated)))
                 ELSE None,
             classification_accuracy |->
                 Mean(high_confidence_sessions, Cardinality(recent_sessions)),
             hourly_breakdown |-> h]

\* twelve hours pass
Elapse ==
    /\ now < MaxHalfDays * HalfDay
    /\ now' = now + HalfDay
    /\ UNCHANGED <<sessions, nextId, published, turn, metrics, hourly, ret, log, call,
                   cls, opt, proc, api>>

\* how many samples of a kind the hour buckets hold
RECURSIVE Samples(_, _, _)
Samples(h, keys, field) ==
    IF keys = {} THEN 0
    ELSE LET k == CHOOSE x \in keys : TRUE
         IN Len(h[k][field]) + Samples(h, keys \ {k}, field)

\* metrics_collector.track_session_start(session_id, request_type, confidence)
TrackStart(s, request_type, confidence) ==
    /\ s \notin DOMAIN metrics
    /\ metrics' = TrackSessionStart(metrics, s, request_type, confidence, UtcNow(now))
    /\ ret' = [op |-> "track_session_start", sid |-> s, err |-> NoError]
    /\ UNCHANGED <<now, sessions, nextId, published, turn, hourly, log, call, cls, opt,
                   proc, api>>

\* metrics_collector.track_response(session_id, response_time_ms, tokens, cost)
TrackResponse(s, response_time_ms, tokens, cost) ==
    /\ Samples(hourly, DOMAIN hourly, "response_times") < MaxSamples
    /\ metrics' = TrackResponseRows(metrics, s, response_time_ms, tokens, cost)
    /\ hourly' = TrackResponseHours(metrics, hourly, s, response_time_ms, tokens, cost, now)
    /\ ret' = [op |-> "track_response", sid |-> s, err |-> NoError]
    /\ UNCHANGED <<now, sessions, nextId, published, turn, log, call, cls, opt, proc, api>>

\* metrics_collector.track_satisfaction(session_id, score)
TrackSatisfaction(s, score) ==
    /\ Samples(hourly, DOMAIN hourly, "satisfactions") < MaxSamples
    /\ metrics' = TrackSatisfactionRows(metrics, s, score)
    /\ hourly' = TrackSatisfactionHours(metrics, hourly, s, score, now)
    /\ ret' = [op |-> "track_satisfaction", sid |-> s, err |-> NoError]
    /\ UNCHANGED <<now, sessions, nextId, published, turn, log, call, cls, opt, proc, api>>

\* metrics_collector.get_analytics()
Analytics ==
    /\ ret' = [op |-> "get_analytics", err |-> NoError,
               val |-> GetAnalytics(metrics, hourly, now)]
    /\ UNCHANGED <<now, sessions, nextId, published, turn, metrics, hourly, log, call,
                   cls, opt, proc, api>>

InitMetrics ==
    \E z \in UtcOffsets : InitWith([ret |-> [op |-> "none"], utc_offset |-> z])

NextMetrics ==
    \/ Elapse
    \/ \E s \in Ids, c \in {50, 80, 90} : TrackStart(s, "sales", c)
    \/ \E s \in AllIds : TrackResponse(s, 1, 280, 4400)
    \/ \E s \in AllIds : TrackSatisfaction(s, 5)
    \/ Analytics

SpecMetrics == InitMetrics /\ [][NextMetrics]_vars

\* ------------------------------------------------- closing the store
\* what the cleanup task ends as once a requested cancellation reaches it: it
\* is suspended in asyncio.sleep, CancelledError is raised there, the loop
\* breaks and the coroutine returns ("finished"); or it has not run yet and
\* the task ends cancelled without running
MutCancelOutcomes == {"scheduled"}

CancelOutcomes == {"finished", "cancelled"}

TaskDone == proc.cleanup_task \in {"finished", "cancelled"}

\* MemoryStorage.close(), up to its await: cancel() asks for the cancellation
\* of a task that is not done; awaiting a task that is done returns at once
\* (its CancelledError, if it ended cancelled, is swallowed)
CloseBegins ==
    /\ proc.close \in {"idle", "returned"}
    /\ IF TaskDone
       THEN proc' = [proc EXCEPT !.close = "returned"]
       ELSE proc' = [proc EXCEPT !.cancel_requested = TRUE, !.close = "awaiting"]
    /\ ret' = [op |-> "close", err |-> NoError, returned |-> TaskDone]
    /\ UNCHANGED <<now, sessions, nextId, published, turn, metrics, hourly, log, call,
                   cls, opt, api>>

\* the event loop resumes the cleanup task with the cancellation
CancelDelivered ==
    /\ proc.cancel_requested
    /\ proc.cleanup_task = "scheduled"
    /\ \E outcome \in CancelOutcomes :
          proc' = [proc EXCEPT !.cleanup_task = outcome, !.cancel_requested = FALSE]
    /\ UNCHANGED <<now, sessions, nextId, published, turn, metrics, hourly, ret, log,
                   call, cls, opt, api>>

\* the event loop resumes close() once the task it awaits is done
CloseReturns ==
    /\ proc.close = "awaiting"
    /\ TaskDone
    /\ proc' = [proc EXCEPT !.close = "returned"]
    /\ ret' = [op |-> "close", err |-> NoError, returned |-> TRUE]
    /\ UNCHANGED <<now, sessions, nextId, published, turn, metrics, hourly, log, call,
                   cls, opt, api>>

NextClose ==
    \/ Tick
    \/ \E s \in Ids, sess \in PutSessions : StoragePut(s, sess)
    \/ \E s \in AllIds : StorageGet(s)
    \/ Sweep
    \/ CloseBegins
    \/ CancelDelivered
    \/ CloseReturns

\* the event loop runs every callback that is ready
SpecCloseFair ==
    Init /\ [][NextClose]_vars /\ WF_vars(CancelDelivered) /\ WF_vars(CloseReturns)

\* ------------------------------------------------------------- the lifespan
\* requests are served between startup and shutdown
Serving == proc.lifespan = "serving"

\* lifespan after its yield, up to the await of llm_client.close()
ShutdownBegins ==
    /\ proc.lifespan = "serving"
    /\ proc' = [proc EXCEPT !.lifespan = "closing llm_client"]
    /\ ret' = [op |-> "shutdown", err |-> NoError, done |-> FALSE]
    /\ UNCHANGED <<now, sessions, nextId, published, turn, metrics, hourly, log, call,
                   cls, opt, api>>

\* llm_client.close() returned: lifespan is over
ShutdownEnds ==
    /\ proc.lifespan = "closing llm_client"
    /\ proc' = [proc EXCEPT !.lifespan = "stopped", !.llm_client_closed = TRUE]
    /\ ret' = [op |-> "shutdown", err |-> NoError, done |-> TRUE]
    /\ UNCHANGED <<now, sessions, nextId, published, turn, metrics, hourly, log, call,
                   cls, opt, api>>

NextLifespan ==
    \/ Tick
    \/ \E s \in Ids, sess \in PutSessions : Serving /\ StoragePut(s, sess)
    \/ \E s \in AllIds : Serving /\ StorageGet(s)
    \/ Serving /\ ListActive
    \/ Sweep
    \/ ShutdownBegins
    \/ ShutdownEnds

SpecLifespan == Init /\ [][NextLifespan]_vars

\* ------------------------------------------------- the context updates alone
\* the keyword arguments a caller passes besides request_type and confidence:
\* fields of the context, keys of its own, and names every model has
ContextKeywords ==
    {<<>>,
     <<<<"customer_name", Some("Ann")>>>>,
     <<<<"order_id", "42">>>>,
     <<<<"order_id", "42">>, <<"priority", PRIORITY_HIGH>>>>,
     <<<<"customer_name", Some("Ann")>>, <<"copy", "x">>>>}

NextContext ==
    \/ Tick
    \/ \E m \in {"", "hello"} : FirstId /\ CreateSession(m)
    \/ \E s \in AllIds, u \in ContextUpdates \cup {<<NoType, None>>}, kw \in ContextKeywords :
          UpdateContext(s, u[1], u[2], kw)

SpecContext == Init /\ [][NextContext]_vars

\* ------------------------------------------------- trimming the metric rows
\* timedelta(hours=48)
RetentionWindow == 48 * TicksPerHour
\* the collector is driven and trimmed every twelve hours, at most this many times
MaxRetentionHalfDays == 5

\* MetricsCollector.cleanup_old_metrics() when datetime.now() reads t
CleanupOldMetrics(m, t) ==
    LET cutoff == t - RetentionWindow
        to_remove == {k \in DOMAIN m : m[k].created_at < cutoff}
    IN [k \in DOMAIN m \ to_remove |-> m[k]]

\* twelve hours pass
ElapseHalfDay ==
    /\ now < MaxRetentionHalfDays * HalfDay
    /\ now' = now + HalfDay
    /\ UNCHANGED <<sessions, nextId, published, turn, metrics, hourly, ret, log, call,
                   cls, opt, proc, api>>

\* metrics_collector.cleanup_old_metrics()
Cleanup ==
    /\ metrics' = CleanupOldMetrics(metrics, now)
    /\ ret' = [op |-> "cleanup_old_metrics", err |-> NoError]
    /\ UNCHANGED <<now, sessions, nextId, published, turn, hourly, log, call, cls, opt,
                   proc, api>>

NextRetention ==
    \/ ElapseHalfDay
    \/ \E s \in Ids : TrackStart(s, "sales", 90)
    \/ \E s \in AllIds : TrackResponse(s, 1, 280, 4400)
    \/ Cleanup

SpecRetention == InitMetrics /\ [][NextRetention]_vars

\* ------------------------------------------------- requests that interleave
\* add_feedback, lines 150-152: the score is set on the session object and the
\* object is persisted with update_session
MutPersistFeedback(map, s, sess, score, t) ==
    UpdateSession(map, s, [sess EXCEPT !.satisfaction = Some(score),
                                       !.expires_at = Some(t + DefaultTTL)], t)

PersistFeedback(map, s, sess, score, t) ==
    UpdateSession(map, s, [sess EXCEPT !.satisfaction = Some(score)], t)

\* get_session_info(session_id): manager.get_session, answered 404 when it
\* raises SessionNotFoundError.  api.expired keeps the ids that were answered
\* so while their entry was still in the store, that is, because it had expired.
GetSessionInfo(s) ==
    /\ s \in Callable
    /\ \E t2 \in Later(now) :
          LET r == MgrGetSession(sessions, s, now, t2)
          IN /\ sessions' = r.map
             /\ now' = t2
             /\ ret' = [op |-> "get_session_info", sid |-> s, err |-> r.err,
                        http |-> Respond("get_session_info", r.err).status_code]
             /\ api' = IF r.err = SessionNotFound /\ s \in DOMAIN sessions
                       THEN [api EXCEPT !.expired = @ \cup {s}]
                       ELSE api
    /\ log' = LogFor(sessions', log)
    /\ UNCHANGED <<nextId, published, turn, metrics, hourly, call, cls, opt, proc>>

\* add_feedback up to its second await: manager.get_session returned the
\* session object, or raised.  Every await is taken as a point where another
\* request may run, which includes the schedule the event loop really follows:
\* FeedbackPersists right after FeedbackFetches.
FeedbackFetches(s) ==
    /\ s \in Callable
    /\ api.feedback = None
    /\ \E t2 \in Later(now) :
          LET g == MgrGetSession(sessions, s, now, t2)
          IN /\ sessions' = g.map
             /\ now' = t2
             /\ IF g.err # NoError
                THEN /\ ret' = [op |-> "add_feedback", sid |-> s, err |-> g.err,
                                http |-> Respond("add_feedback", g.err).status_code]
                     /\ api' = api
                ELSE /\ ret' = [op |-> "suspended", turn |-> "feedback", sid |-> s,
                                err |-> NoError]
                     /\ api' = [api EXCEPT !.feedback =
                                   Some([sid |-> s, session |-> g.val[1]])]
    /\ log' = LogFor(sessions', log)
    /\ UNCHANGED <<nextId, published, turn, metrics, hourly, call, cls, opt, proc>>

\* add_feedback from there: the score is set on the object the request holds,
\* which is the stored object while the entry is in the store, update_session
\* stores it under its id, track_satisfaction
FeedbackPersists(score) ==
    /\ api.feedback # None
    /\ \A k \in DOMAIN hourly : Len(hourly[k].satisfactions) < MaxFeedback
    /\ LET s == api.feedback[1].sid
           held == IF s \in DOMAIN sessions THEN sessions[s] ELSE api.feedback[1].session
       IN /\ sessions' = PersistFeedback(sessions, s, held, score, now)
          /\ metrics' = TrackSatisfactionRows(metrics, s, score)
          /\ hourly' = TrackSatisfactionHours(metrics, hourly, s, score, now)
          /\ ret' = [op |-> "add_feedback", sid |-> s, err |-> NoError,
                     http |-> Respond("add_feedback", NoError).status_code]
    /\ api' = [api EXCEPT !.feedback = None]
    /\ log' = LogFor(sessions', log)
    /\ UNCHANGED <<now, nextId, published, turn, call, cls, opt, proc>>

NextInterleaved ==
    \/ Tick
    \/ FirstId /\ CreateSession("hello")
    \/ \E s \in AllIds : GetSessionInfo(s)
    \/ \E s \in AllIds : StorageGet(s)
    \/ \E s \in AllIds : SendMessage("t1", s)
    \/ ClassifyEnds("t1", <<>>, JsonDict(JStr("complaint"), JNum(90)))
    \/ \E f \in Exhausted : GenerateRaises("t1", f)
    \/ \E g \in Generations : GenerateReplies("t1", <<>>, "we are sorry", g[1], g[2])
    \/ \E s \in AllIds : FeedbackFetches(s)
    \/ FeedbackPersists(5)
    \/ ListActive
    \/ Sweep

SpecInterleaved == Init /\ [][NextInterleaved]_vars

\* ------------------------------------------------- a turn, attempt by attempt
\* send_message, as SendMessage; the count of the calls of
\* client.chat.completions.create starts again with the turn
SendMessageCounted(t, s) ==
    /\ turn[t].pc = "idle"
    /\ s \in Callable
    /\ HasRoom(s, 2)
    /\ ProcessMessageStart(t, s, "send", sessions, log)
    /\ api' = [api EXCEPT !.invoked = 0, !.classifies = turn'[t].pc = "classify"]
    /\ UNCHANGED <<nextId, published, metrics, hourly, call, cls, opt, proc>>

\* one attempt of the call the turn awaits raised
TurnAttemptFails(t, raw) ==
    /\ turn[t].pc \in {"classify", "generate"}
    /\ turn[t].call.status = "pending"
    /\ turn' = [turn EXCEPT ![t].call = AttemptFailed(@, raw)]
    /\ api' = [api EXCEPT !.invoked = @ + 1]
    /\ UNCHANGED <<now, sessions, nextId, published, metrics, hourly, ret, log, call, cls,
                   opt, proc>>

\* one attempt of the call the turn awaits returned the provider's reply
TurnAttemptReturns(t, content) ==
    /\ turn[t].pc \in {"classify", "generate"}
    /\ turn[t].call.status = "pending"
    /\ turn' = [turn EXCEPT ![t].call = AttemptReturned(@, content)]
    /\ api' = [api EXCEPT !.invoked = @ + 1]
    /\ UNCHANGED <<now, sessions, nextId, published, metrics, hourly, ret, log, call, cls,
                   opt, proc>>

\* the call the turn awaits has ended
CallEnded(t) == turn[t].call.status \in {"returned", "raised"}

NextAttempts ==
    \/ Tick
    \/ \E m \in {"", "hello"} : FirstId /\ CreateSession(m)
    \/ \E s \in AllIds : SendMessageCounted("t1", s)
    \/ \E raw \in RawFailures : TurnAttemptFails("t1", raw)
    \/ \E c \in TurnClassifications :
          turn["t1"].pc = "classify" /\ TurnAttemptReturns("t1", c)
    \/ \E r \in ReplyTexts : turn["t1"].pc = "generate" /\ TurnAttemptReturns("t1", r)
    \* the call has ended: no attempt is left for the stage to make, and what
    \* the call returned is the reply of its last attempt
    \/ CallEnded("t1") /\ ClassifyEnds("t1", <<>>, NotJson)
    \/ CallEnded("t1") /\ GenerateRaises("t1", <<>>)
    \/ \E r \in ReplyTexts, g \in Generations :
          /\ turn["t1"].pc = "generate"
          /\ turn["t1"].call.reply = Some(r)
          /\ GenerateReplies("t1", <<>>, r, g[1], g[2])

SpecAttempts == Init /\ [][NextAttempts]_vars

\* ==================================================================== claims
\* C1: the store's get never returns an expired session.  In every step that is
\* a get_session(s) of the store: a session it returns is not expired at the
\* time of the call; if the entry under s was expired, the call returns None
\* and s is no longer a key of the map after it; an unexpired entry is
\* returned and kept.
C1_GetNeverReturnsExpired ==
    [][\A s \in AllIds :
          StorageGet(s) =>
              /\ ret'.val # None => /\ ~IsExpired(ret'.val[1], now)
                                    /\ s \in DOMAIN sessions
                                    /\ ret'.val[1] = sessions[s]
              /\ (s \in DOMAIN sessions /\ sessions[s].expires_at # None
                     /\ now > sessions[s].expires_at[1])
                    => (ret'.val = None /\ s \notin DOMAIN sessions')
              /\ (s \in DOMAIN sessions /\ ~IsExpired(sessions[s], now))
                    => (ret'.val = Some(sessions[s]) /\ sessions' = sessions)]_vars

\* a get found an entry under its key and reported None: the entry was expired,
\* and the key is gone
C1_Witness ==
    /\ ret.op = "storage.get_session"
    /\ ret.had
    /\ ret.val = None
    /\ ret.sid \notin DOMAIN sessions

\* C2: the manager's get_session(s) either returns the session stored under s,
\* unexpired at the time the call returns, or fails with SessionNotFoundError;
\* it fails for every id that is absent or whose session is expired, and then
\* the entry is no longer in the store.
C2_GetSessionOrNotFound ==
    [][\A s \in AllIds :
          GetSession(s) =>
              /\ \/ /\ ret'.err = NoError
                    /\ ret'.val # None
                    /\ s \in DOMAIN sessions'
                    /\ ret'.val[1] = sessions'[s]
                    /\ ret'.val[1] = sessions[s]
                    /\ ~IsExpired(ret'.val[1], now')
                 \/ /\ ret'.err = SessionNotFound
                    /\ ret'.val = None
              /\ (s \notin DOMAIN sessions \/ IsExpired(sessions[s], now'))
                    => (ret'.err = SessionNotFound /\ s \notin DOMAIN sessions')
              /\ (s \in DOMAIN sessions /\ ~IsExpired(sessions[s], now'))
                    => ret'.err = NoError]_vars

\* get_session found the session in the store and failed with
\* SessionNotFoundError: it was expired, and it is deleted
C2_Witness ==
    /\ ret.op = "get_session"
    /\ ret.had
    /\ ret.err = SessionNotFound
    /\ ret.sid \in published
    /\ ret.sid \notin DOMAIN sessions

\* the history before is a prefix of the history after
IsPrefix(a, b) == Len(a) <= Len(b) /\ a = SubSeq(b, 1, Len(a))

\* C3: add_message is append-only.  The stored history of every session is the
\* seeded message (if any) followed by the messages of the add_message calls
\* that returned, in call order, so after N calls it has N messages plus the
\* seed; and the history before a call is a prefix of the history after it.
C3_AppendOnly ==
    [][/\ \A s \in DOMAIN sessions' :
            /\ Len(log'[s].seed) <= 1
            /\ Len(sessions'[s].messages) = Len(log'[s].adds) + Len(log'[s].seed)
            /\ sessions'[s].messages = log'[s].seed \o log'[s].adds
       /\ \A s \in DOMAIN sessions : \A role \in MessageRole :
            AddMessage(s, role, "text") =>
                /\ s \in DOMAIN sessions' => IsPrefix(sessions[s].messages,
                                                      sessions'[s].messages)
                /\ ret'.err = NoError =>
                      sessions'[s].messages =
                          Append(sessions[s].messages, Message(role, "text"))]_vars

\* a session seeded with a message, after three add_message calls
C3_Witness ==
    \E s \in DOMAIN sessions :
        /\ Len(log[s].seed) = 1
        /\ Len(log[s].adds) = 3
        /\ Len(sessions[s].messages) = 4
        /\ ret.op = "add_message" /\ ret.err = NoError

\* the roles of a history, in order
Roles(messages) == [i \in 1..Len(messages) |-> messages[i].role]

\* process_message returned normally from the turn start_dialogue made
StartReturned ==
    /\ ret.op = "process_message"
    /\ ret.via = "start"
    /\ ret.err = NoError

\* C4: the start scenario (create_session with the initial message, then
\* process_message on that message, the provider replying) leaves the stored
\* session with exactly 2 messages, in order (user, assistant).
C4_StartLeavesTwoMessages ==
    StartReturned =>
        /\ ret.sid \in DOMAIN sessions
        /\ Len(sessions[ret.sid].messages) = 2
        /\ Roles(sessions[ret.sid].messages) = <<ROLE_USER, ROLE_ASSISTANT>>

\* C5: the start scenario, metrics side.  When the turn start_dialogue made
\* returns with the classifier's result (complaint, 0.9), the session's context
\* has request_type complaint, and the collector holds a row under the session's
\* id whose total_cost is the cost computed from the prompt and completion
\* tokens the provider returned, with exactly one response time.
C5_StartMetrics ==
    [][\A t \in Turns, f \in Retried, r \in ReplyTexts, g \in Generations :
          (/\ GenerateReplies(t, f, r, g[1], g[2])
           /\ turn[t].via = "start"
           /\ ret'.err = NoError
           /\ ret'.request_type = "complaint"
           /\ ret'.confidence = 90) =>
              LET s == turn[t].sid
              IN /\ s \in DOMAIN sessions'
                 /\ sessions'[s].request_type = "complaint"
                 /\ sessions'[s].confidence = 90
                 /\ s \in DOMAIN metrics'
                 /\ metrics'[s].request_type = "complaint"
                 /\ metrics'[s].total_cost = CalculateCost(g[1], g[2])
                 /\ metrics'[s].tokens_used = g[1].prompt_tokens + g[1].completion_tokens
                 /\ metrics'[s].response_times = <<ret'.response_time>>]_vars

\* the first turn of a started session returned, classified (complaint, 0.9),
\* and its row carries a cost and one response time
C5_Witness ==
    /\ StartReturned
    /\ ret.request_type = "complaint"
    /\ ret.confidence = 90
    /\ ret.sid \in DOMAIN metrics
    /\ metrics[ret.sid].total_cost > 0
    /\ Len(metrics[ret.sid].response_times) = 1
    /\ sessions[ret.sid].request_type = "complaint"

\* the provider outcomes C6 names: the call raised after its retries, or its
\* reply is no JSON object (no JSON at all, empty, JSON of another kind), or
\* names a type that is no RequestType value, or carries no usable confidence
Degraded(c) ==
    \/ c.status = "raised"
    \/ /\ c.status = "returned"
       /\ LET content == c.reply[1]
          IN \/ content.kind # "dict"
             \/ /\ content.kind = "dict"
                /\ \/ content.type.k \in {"null", "num", "numstr"}
                   \/ content.type.k = "str" /\ content.type.v \notin RequestTypes
                   \/ content.confidence.k \in {"str", "null"}

\* C6: classification never fails the caller.  Whenever classify_message has
\* returned, it returned a RequestType with a confidence, and for every
\* degraded provider outcome (unparseable or empty reply, unknown category,
\* provider error after the retries) it returned exactly (general, 0.5).
C6_ClassifyDegrades ==
    cls # None =>
        /\ call.status \in {"returned", "raised"}
        /\ cls[1].request_type \in RequestTypes
        /\ cls[1].confidence \in Int
        /\ Degraded(call) => cls[1] = [request_type |-> "general", confidence |-> 50]

\* the provider named a category that is no RequestType, with confidence 0.9,
\* and classify_message returned (general, 0.5)
C6_Witness ==
    /\ call.status = "returned"
    /\ call.reply = Some(JsonDict(JStr("billing"), JNum(90)))
    /\ cls = Some([request_type |-> "general", confidence |-> 50])

\* C7: when the generation call of process_message fails on its last attempt,
\* process_message raises the typed error of that attempt (LLMTimeoutError,
\* LLMRateLimitError or LLMError) and leaves the stored session as it was; and
\* no step of a turn changes a session's status: only close_session does.
C7_GenerationFailurePropagates ==
    [][/\ \A t \in Turns, f \in Exhausted :
            GenerateRaises(t, f) =>
                /\ ret'.op = "process_message"
                /\ ret'.sid = turn[t].sid
                /\ f[3] = RAW_TIMEOUT => ret'.err = LLMTimeout
                /\ f[3] = RAW_RATE_LIMIT => ret'.err = LLMRateLimit
                /\ f[3] = RAW_OTHER => ret'.err = LLMError
                /\ sessions' = sessions
       /\ \A s \in DOMAIN sessions \cap DOMAIN sessions' :
            sessions'[s].status # sessions[s].status => ret'.op = "close_session"]_vars

\* a turn failed with LLMTimeoutError from its generation call, and the session
\* is stored and still active
C7_Witness ==
    /\ ret.op = "process_message"
    /\ ret.err = LLMTimeout
    /\ ret.raw = RAW_TIMEOUT
    /\ ret.sid \in DOMAIN sessions
    /\ sessions[ret.sid].status = STATUS_ACTIVE
    /\ Len(sessions[ret.sid].messages) >= 1

\* C8: a provider call makes at most 3 attempts.  An attempt that returns ends
\* the call with its result, and no attempt follows it; a first or second
\* attempt that raises is retried; a third attempt that raises ends the call
\* with the typed error of that third attempt.
C8_BoundedRetry ==
    [][/\ call'.attempts <= 3
       /\ call.status \in {"returned", "raised"} => call' = call
       /\ \A content \in ClassifyContents :
            CallAttemptReturns(content) =>
                /\ call'.status = "returned"
                /\ call'.reply = Some(content)
                /\ call'.attempts = call.attempts + 1
       /\ \A raw \in RawFailures :
            CallAttemptFails(raw) =>
                /\ call'.attempts = call.attempts + 1
                /\ call.attempts < 2 => call'.status = "pending"
                /\ call.attempts = 2 =>
                      /\ call'.status = "raised"
                      /\ call'.error = TypedError(raw)
                      /\ call'.last = raw]_vars

\* three attempts raised and the call gave up with the third one's error
C8_Witness ==
    /\ call.status = "raised"
    /\ call.attempts = 3
    /\ call.last = RAW_RATE_LIMIT
    /\ call.error = LLMRateLimit

\* the statuses of a closed session
TerminalStatuses == {STATUS_COMPLETED, STATUS_ESCALATED, STATUS_TIMEOUT}

\* C9: session status only moves forward.  In every step, a stored session
\* whose status is terminal (completed, escalated, timeout) keeps that status:
\* it never becomes active again and never changes to another status.
C9_StatusOnlyForward ==
    [][\A s \in DOMAIN sessions \cap DOMAIN sessions' :
          sessions[s].status \in TerminalStatuses =>
              sessions'[s].status = sessions[s].status]_vars

\* the messages the add_message calls on s have appended, as the log has them,
\* that the stored history does not hold at their place
LostMessages(s) ==
    LET made == log[s].seed \o log[s].adds
    IN {i \in 1..Len(made) :
           i > Len(sessions[s].messages) \/ sessions[s].messages[i] # made[i]}

\* a context field a completed update_context set is unset in the stored session
LostContext(s) ==
    /\ \E t \in Turns : turn[t].pc = "generate" /\ turn[t].sid = s
    /\ sessions[s].request_type = NoType

C19_GetCachedWithinTTL ==
    [][\A k \in CacheKeys :
          GetCached(k) =>
              IF /\ opt.enable_caching
                 /\ k \in DOMAIN opt.response_cache
                 /\ now - opt.response_cache[k].timestamp <= CacheTTL
              THEN /\ ret'.val = Some(<<opt.response_cache[k].response,
                                        opt.response_cache[k].tokens,
                                        opt.response_cache[k].cost>>)
                   /\ opt' = opt
              ELSE /\ ret'.val = None
                   /\ (opt.enable_caching /\ k \in DOMAIN opt.response_cache)
                         => k \notin DOMAIN opt'.response_cache]_vars

\* C20: with caching disabled, cache_response leaves the cache as it was, for
\* every key and value: no entry is added and none is replaced.
C20_PutDisabledIsNoOp ==
    [][\A k \in CacheKeys, e \in CachedResponses :
          (PutCached(k, e[1], e[2], e[3]) /\ ~opt.enable_caching) =>
              opt'.response_cache = opt.response_cache]_vars

\* cache_response was called with caching disabled, for a key the cache does
\* not hold, while the cache holds an entry put earlier: the key is still absent
C20_Witness ==
    /\ ret.op = "cache_response"
    /\ ~ret.enabled
    /\ ~opt.enable_caching
    /\ opt.response_cache # EmptyMap
    /\ ret.key \notin DOMAIN opt.response_cache

\* the one request slot of the sequential specification
T1 == "t1"
\* the step in which process_message reaches its first provider call
TurnBegins == turn[T1].pc = "idle" /\ turn'[T1].pc # "idle"
\* the step in which process_message returns normally
TurnReturns == turn[T1].pc = "generate" /\ turn'[T1].pc = "idle" /\ ret'.err = NoError
\* the session is past its expires_at at time t, read off its fields
PastExpiry(map, s, t) ==
    s \in DOMAIN map /\ map[s].expires_at # None /\ t > map[s].expires_at[1]

\* C11: classification happens only while the session has no intent.  In a
\* sequence of turns on one session, a turn calls the classifier exactly when
\* the stored request_type is unset, which is the case on the first turn only;
\* a later turn goes straight to generation, returns the stored request type
\* and confidence, and no step other than a classifying turn's update_context
\* changes the context's request type or confidence.
C11_ClassifyFirstTurnOnly ==
    [][/\ TurnBegins =>
            LET s == turn'[T1].sid
                stored == IF s \in DOMAIN sessions THEN sessions[s] ELSE NewSession(now)
            IN /\ s \in DOMAIN sessions'
               /\ turn'[T1].pc = "classify" <=> stored.request_type = NoType
               /\ turn'[T1].pc = "classify" <=> Len(log'[s].adds) = 1
               /\ turn'[T1].pc = "generate" =>
                     /\ turn'[T1].request_type = stored.request_type
                     /\ turn'[T1].confidence = stored.confidence
       /\ TurnReturns =>
            /\ ret'.request_type = sessions'[turn[T1].sid].request_type
            /\ ret'.confidence = sessions'[turn[T1].sid].confidence
       /\ \A s \in DOMAIN sessions \cap DOMAIN sessions' :
            (\/ sessions'[s].request_type # sessions[s].request_type
             \/ sessions'[s].confidence # sessions[s].confidence) =>
                /\ turn[T1].pc = "classify"
                /\ turn[T1].sid = s
                /\ sessions[s].request_type = NoType]_vars

\* a second turn on a session returned the request type and confidence the
\* first turn's classification stored
C11_Witness ==
    /\ ret.op = "process_message"
    /\ ret.err = NoError
    /\ ret.via = "send"
    /\ ret.sid \in DOMAIN sessions
    /\ sessions[ret.sid].response_count = 2
    /\ ret.request_type = "complaint"
    /\ sessions[ret.sid].request_type = "complaint"
    /\ ret.confidence = sessions[ret.sid].confidence

\* C13: process_message on an id that is absent, or whose session is past its
\* expires_at when the turn starts, raises SessionNotFoundError at once: no
\* provider call is started, no stored session changes (the expired one is
\* deleted), and the metrics collector is as it was.
C13_AbsentOrExpiredFailsAtOnce ==
    [][\A s \in AllIds :
          (SendMessage(T1, s) /\ (s \notin DOMAIN sessions \/ PastExpiry(sessions, s, now))) =>
              /\ ret'.op = "process_message"
              /\ ret'.err = SessionNotFound
              /\ turn' = turn
              /\ metrics' = metrics
              /\ hourly' = hourly
              /\ s \notin DOMAIN sessions'
              /\ \A k \in DOMAIN sessions' : k \in DOMAIN sessions /\ sessions'[k] = sessions[k]]_vars

\* a turn started on a session that had a metrics row and was past its
\* expires_at at the turn's start, and raised SessionNotFoundError
C13_Witness ==
    /\ ret.op = "process_message"
    /\ ret.err = SessionNotFound
    /\ ret.raw = "none"
    /\ ret.sid \in published
    /\ ret.sid \in DOMAIN metrics
    /\ ret.began > metrics[ret.sid].created_at + DefaultTTL
    /\ ret.sid \notin DOMAIN sessions

\* C14: a successful process_message with no other turn on the session grows
\* the stored history by exactly two messages: the user's text is appended in
\* the step that ends with the first provider call (so it is stored before the
\* provider is invoked), nothing is appended while the provider is awaited, and
\* the assistant's reply, the text process_message returns, is appended in the
\* step that returns; track_response runs only after that append succeeded.
C14_TurnAppendsUserThenAssistant ==
    [][/\ TurnBegins =>
            LET s == turn'[T1].sid
                before == IF s \in DOMAIN sessions
                          THEN sessions[s].messages
                          ELSE <<Message(ROLE_USER, TurnText[T1])>>
            IN sessions'[s].messages = Append(before, Message(ROLE_USER, TurnText[T1]))
       /\ TurnReturns =>
            LET s == turn[T1].sid
                n == Len(sessions'[s].messages)
            IN /\ sessions'[s].messages =
                     Append(sessions[s].messages, Message(ROLE_ASSISTANT, ret'.response))
               /\ n >= 2
               /\ sessions'[s].messages[n - 1] = Message(ROLE_USER, TurnText[T1])
               /\ sessions'[s].messages[n] = Message(ROLE_ASSISTANT, ret'.response)
               /\ Len(metrics'[s].response_times) = Len(metrics[s].response_times) + 1
       /\ (turn[T1].pc = "generate" /\ turn'[T1].pc = "idle" /\ ret'.err # NoError) =>
            /\ metrics' = metrics
            /\ hourly' = hourly
       /\ \A s \in DOMAIN sessions \cap DOMAIN sessions' :
            sessions'[s].messages # sessions[s].messages =>
                \/ TurnBegins /\ turn'[T1].sid = s
                \/ TurnReturns /\ turn[T1].sid = s
       /\ \A s \in DOMAIN sessions' \cap DOMAIN metrics' :
            Len(metrics'[s].response_times) <= sessions'[s].response_count]_vars

\* a turn sent to a session with an empty history returned: the history is the
\* user's text followed by the reply
C14_Witness ==
    /\ ret.op = "process_message"
    /\ ret.err = NoError
    /\ ret.via = "send"
    /\ ret.sid \in DOMAIN sessions
    /\ sessions[ret.sid].messages =
          <<Message(ROLE_USER, TurnText[T1]), Message(ROLE_ASSISTANT, ret.response)>>
    /\ Len(metrics[ret.sid].response_times) = 1

\* C15: the feedback boundary.  close_session leaves the session in the store,
\* with its expires_at, and readable; add_feedback on a stored session that is
\* not past its expires_at succeeds and sets the satisfaction score, closed or
\* not; add_feedback on an absent session, or past expires_at, fails with
\* SessionNotFoundError from its fetch, the session is gone with no score set,
\* and the metrics collector gets no satisfaction sample.
C15_FeedbackBoundary ==
    [][\A s \in AllIds :
          /\ (CloseSession(s, STATUS_COMPLETED) /\ ret'.err = NoError) =>
                /\ s \in DOMAIN sessions'
                /\ sessions'[s].status = STATUS_COMPLETED
                /\ sessions'[s].expires_at = sessions[s].expires_at
                /\ MgrGetSession(sessions', s, now', now').err = NoError
          /\ AddFeedback(s, 5) =>
                IF s \in DOMAIN sessions /\ ~PastExpiry(sessions, s, now')
                THEN /\ ret'.err = NoError
                     /\ s \in DOMAIN sessions'
                     /\ sessions'[s].satisfaction = Some(5)
                     /\ sessions'[s].status = sessions[s].status
                     /\ sessions'[s].messages = sessions[s].messages
                ELSE /\ ret'.err = SessionNotFound
                     /\ s \notin DOMAIN sessions'
                     /\ metrics' = metrics
                     /\ hourly' = hourly]_vars

\* feedback on a closed session, given at the very time of its expires_at,
\* succeeded and reached the metrics row
C15_Witness ==
    /\ ret.op = "add_feedback"
    /\ ret.err = NoError
    /\ ret.sid \in DOMAIN sessions
    /\ sessions[ret.sid].status = STATUS_COMPLETED
    /\ sessions[ret.sid].satisfaction = Some(5)
    /\ sessions[ret.sid].expires_at = Some(now)
    /\ ret.sid \in DOMAIN metrics
    /\ metrics[ret.sid].satisfaction = Some(5)

\* C17: the classification confidence stored in a session's context is within
\* [0, 1] in every reachable state, whatever confidence the provider's reply
\* carries.
C17_ConfidenceInRange ==
    \A s \in DOMAIN sessions :
        sessions[s].confidence >= 0 /\ sessions[s].confidence <= 100

\* C16: create_session stores a new session under a fresh id: Active, expiring
\* at the creation time plus the default time to live, with no intent and
\* confidence 0, whose history is exactly one User message carrying the initial
\* message when one was given and is empty otherwise; the session is readable
\* through get_session right after.
C16_CreateStoresFreshSession ==
    [][nextId' # nextId =>
          LET s == nextId
              m == IF ret'.seeded THEN sessions'[s].messages[1].content ELSE ""
          IN /\ ret'.op = "create_session"
             /\ ret'.sid = s
             /\ s \notin DOMAIN sessions
             /\ s \in DOMAIN sessions'
             /\ sessions'[s].status = STATUS_ACTIVE
             /\ sessions'[s].expires_at = Some(now + DefaultTTL)
             /\ sessions'[s].request_type = NoType
             /\ sessions'[s].confidence = 0
             /\ sessions'[s].satisfaction = None
             /\ IF ret'.seeded
                THEN sessions'[s].messages = <<Message(ROLE_USER, m)>> /\ m # ""
                ELSE sessions'[s].messages = <<>>
             /\ CreateSession(m)
             /\ LET r == MgrGetSession(sessions', s, now', now')
                IN r.err = NoError /\ r.val = Some(sessions'[s]) /\ r.map = sessions']_vars

\* a session created with an initial message was read back through
\* get_session, unchanged
C16_Witness ==
    /\ ret.op = "get_session"
    /\ ret.err = NoError
    /\ ret.val # None
    /\ ret.val[1].status = STATUS_ACTIVE
    /\ ret.val[1].messages = <<Message(ROLE_USER, "hello")>>
    /\ ret.val[1].response_count = 0
    /\ ret.val[1].expires_at = Some(ret.val[1].created_at + DefaultTTL)

\* C18: the metrics row of a session is created once: whatever the
\* interleaving of turns, two turns that both start before the intent is known
\* included, track_session_start never replaces an existing row, so what the
\* row has accumulated (response times, tokens, cost) is never reset.
C18_RowCreatedOnce ==
    [][\A s \in DOMAIN metrics :
          /\ s \in DOMAIN metrics'
          /\ Len(metrics'[s].response_times) >= Len(metrics[s].response_times)
          /\ metrics'[s].tokens_used >= metrics[s].tokens_used
          /\ metrics'[s].total_cost >= metrics[s].total_cost]_vars

\* C12: process_message consults the optimizer's cache before generating: the
\* provider is invoked for the reply only on a miss, that is, whenever a turn
\* hands its generation request to the provider, get_cached_response has no
\* valid entry under that request's key.
C12_ProviderOnlyOnMiss ==
    [][(turn[T1].pc # "generate" /\ turn'[T1].pc = "generate") =>
          LET sess == sessions'[turn'[T1].sid]
              cache_key == GetCacheKey(GenerationMessages(sess),
                                       MODEL_GPT4_PREVIEW, Temperature)
          IN GetCachedResponse(opt, cache_key, now').val = None]_vars

\* C21: with cost optimization enabled, select_optimal_model returns the
\* premium model (settings.openai_model) for every session with priority high
\* and 11 messages, whatever its request type, general included.
C21_HighPriorityLongHistoryIsPremium ==
    (/\ ret.op = "select_optimal_model"
     /\ ret.settings.cost_optimization
     /\ ret.session.priority = PRIORITY_HIGH
     /\ Len(ret.session.messages) = 11)
        => ret.val = ret.settings.openai_model

\* C22: with cost optimization enabled and a request type other than general,
\* select_optimal_model returns the premium model when the priority is high or
\* urgent or the history is longer than 10 messages, and the fast model in
\* every other case.
C22_PremiumForHighUrgentOrLong ==
    (/\ ret.op = "select_optimal_model"
     /\ ret.settings.cost_optimization
     /\ ret.session.request_type # "general")
        => ret.val = IF \/ ret.session.priority \in {PRIORITY_HIGH, PRIORITY_URGENT}
                        \/ Len(ret.session.messages) > 10
                     THEN ret.settings.openai_model
                     ELSE FastModel(ret.settings)

\* C23: the output of compress_context holds at most one system message, placed
\* first, followed by the most recent N non-system messages of the input in
\* their original order (all of them when the input has fewer than N), N being
\* the configured max_context_messages.
C23_OneSystemThenRecentN ==
    ret.op = "compress_context" =>
        LET out == ret.val
            lead == IF out # <<>> /\ IsSystem(out[1]) THEN 1 ELSE 0
            rest == SubSeq(out, lead + 1, Len(out))
            wanted == LastN(SelectSeq(ret.messages, NotSystem), ret.limit)
        IN /\ \A i \in 1..Len(rest) : NotSystem(rest[i])
           /\ Len(rest) = Len(wanted)
           /\ \A i \in 1..Len(rest) :
                 /\ rest[i].role = wanted[i].role
                 /\ rest[i].content.text = wanted[i].content.text

\* C24: compress_context truncates every body over 500 characters: each message
\* it emits, of any role, carries at most the first 500 characters of the
\* original body, with the ellipsis when it was cut, and a body of 500
\* characters or fewer is emitted unchanged.
C24_EveryBodyTruncated ==
    ret.op = "compress_context" =>
        \A i \in 1..Len(ret.val) :
            LET emitted == ret.val[i].content
                original == (CHOOSE m \in CompressMessages :
                                m.content.text = emitted.text).content
            IN /\ emitted.len <= 500
               /\ IF original.len > 500
                  THEN emitted.len = 500 /\ emitted.tail = "..."
                  ELSE emitted = original

\* C25: track_response and track_satisfaction for a session id that has no row
\* return normally and change nothing: every row and every hour bucket is as it
\* was, and no bucket is created.
C25_UnknownSessionIsNoOp ==
    [][\A s \in AllIds :
          (/\ s \notin DOMAIN metrics
           /\ TrackResponse(s, 1, 280, 4400) \/ TrackSatisfaction(s, 5))
              => /\ ret'.err = NoError
                 /\ metrics' = metrics
                 /\ hourly' = hourly
                 /\ DOMAIN hourly' = DOMAIN hourly]_vars

\* a response was reported for a session without a row while another session
\* has one, and while the hour has no bucket
C25_Witness ==
    /\ ret.op = "track_response"
    /\ ret.sid \notin DOMAIN metrics
    /\ metrics # EmptyMap
    /\ HourKey(now) \notin DOMAIN hourly

\* C26: get_analytics is computed over exactly the rows created within the
\* last 24 hours: total_sessions is their number, total_tokens_used the sum of
\* their tokens, classification_accuracy the fraction of them whose confidence
\* is above 0.8; with no such row every figure is zero and avg_satisfaction is
\* absent.
C26_AnalyticsOverLastDay ==
    [][Analytics =>
        LET created(k) == metrics[k].created_at + proc.utc_offset * TicksPerHour
            within == {k \in DOMAIN metrics : now - created(k) < 24 * TicksPerHour}
            high == {k \in within : metrics[k].confidence > 80}
            a == ret'.val
        IN /\ a.total_sessions = Cardinality(within)
           /\ a.total_tokens_used = SumOf(metrics, within, "tokens_used")
           /\ a.classification_accuracy.sum * Cardinality(within)
                 = Cardinality(high) * a.classification_accuracy.count
           /\ within = {} =>
                 /\ a.total_sessions = 0
                 /\ a.avg_response_time_ms.sum = 0
                 /\ a.total_tokens_used = 0
                 /\ a.total_cost_usd = 0
                 /\ a.classification_accuracy.sum = 0
                 /\ a.avg_satisfaction = None]_vars

\* C27: get_active_sessions returns exactly the stored sessions that are not
\* expired at the time of the call; after it no session that was expired at
\* that time is left in the store, and the unexpired ones are in place,
\* unchanged.
C27_ListActiveFiltersAndEvicts ==
    [][ListActive =>
          LET live == {k \in DOMAIN sessions : ~IsExpired(sessions[k], now)}
          IN /\ ret'.err = NoError
             /\ DOMAIN ret'.val = live
             /\ \A k \in live : ret'.val[k] = sessions[k]
             /\ DOMAIN sessions' = live
             /\ \A k \in live : sessions'[k] = sessions[k]]_vars

\* a call returned one session and evicted another
C27_Witness ==
    /\ ret.op = "get_active_sessions"
    /\ ret.val # EmptyMap
    /\ ret.had # DOMAIN ret.val
    /\ DOMAIN sessions = DOMAIN ret.val

\* C28: each pass of the background sweep deletes every session that is expired
\* when the pass scans the store and no session that is not; and, the sweep
\* task being scheduled fairly, every session that stays in the store past its
\* expires_at is eventually removed, even if it is never read again.
C28_SweepRemovesExpired ==
    /\ [][Sweep =>
            LET live == {k \in DOMAIN sessions : ~IsExpired(sessions[k], now)}
            IN /\ DOMAIN sessions' = live
               /\ \A k \in live : sessions'[k] = sessions[k]]_vars
    /\ \A s \in Ids :
          (s \in DOMAIN sessions /\ IsExpired(sessions[s], now))
              ~> (s \notin DOMAIN sessions \/ ~IsExpired(sessions[s], now))

\* a pass removed an expired session and left an unexpired one in the store
C28_Witness ==
    /\ ret.op = "sweep"
    /\ sessions # EmptyMap
    /\ DOMAIN sessions # ret.had
    /\ \A k \in DOMAIN sessions : ~IsExpired(sessions[k], now)

\* C29: cancelling the sweep through close() always terminates it: whatever the
\* cleanup task is doing when close() is called, close() eventually returns;
\* when it has returned the task is done and no pass of the sweep happens any
\* more; and every entry of the store is a whole session, present with all its
\* fields or absent.
C29_CloseTerminatesSweep ==
    /\ [](proc.close = "returned" => TaskDone)
    /\ [][proc.close = "returned" => ~Sweep]_vars
    /\ [](\A s \in DOMAIN sessions : DOMAIN sessions[s] = DOMAIN NewSession(0))
    /\ (proc.close = "awaiting") ~> (proc.close = "returned")

\* close() had to wait for the task, returned, and left a session in the store
\* that is expired and will not be swept
C29_Witness ==
    /\ ret.op = "close"
    /\ proc.close = "returned"
    /\ proc.cleanup_task = "finished"
    /\ \E s \in DOMAIN sessions : IsExpired(sessions[s], now)

\* C30: at application shutdown the sweep task is cancelled: once lifespan's
\* shutdown has completed, the store's cleanup task has been cancelled and has
\* terminated.
C30_ShutdownCancelsSweep ==
    proc.lifespan = "stopped" => TaskDone

\* ------------------------------------------------------------------ C31
\* the keys of a sequence of keyword arguments, and the value a key was given
KeysOf(context_updates) == {context_updates[i][1] : i \in DOMAIN context_updates}
GivenValue(context_updates, key) ==
    LET i == CHOOSE j \in DOMAIN context_updates : context_updates[j][1] = key
    IN context_updates[i][2]
\* the record fields of a session that hold its context
ContextRecordFields == {FieldName(k) : k \in ContextFields \ {"session_data"}}
\* what update_context is said to do to a readable session
ContextUpdated(pre, post, request_type, confidence, context_updates) ==
    LET keys == KeysOf(context_updates)
        named == {FieldName(k) : k \in keys \cap ContextFields}
                 \cup (IF request_type # NoType THEN {"request_type"} ELSE {})
                 \cup (IF confidence # None THEN {"confidence"} ELSE {})
        other == keys \ ContextFields
    IN /\ request_type # NoType => post.request_type = request_type
       /\ confidence # None => post.confidence = confidence[1]
       /\ \A k \in keys \cap ContextFields :
             post[FieldName(k)] = GivenValue(context_updates, k)
       /\ \A f \in ContextRecordFields \ named : post[f] = pre[f]
       /\ "session_data" \notin keys =>
             /\ DOMAIN post.session_data = DOMAIN pre.session_data \cup other
             /\ \A k \in other : post.session_data[k] = GivenValue(context_updates, k)
             /\ \A k \in DOMAIN pre.session_data \ other :
                   post.session_data[k] = pre.session_data[k]
       /\ post.messages = pre.messages
       /\ post.status = pre.status
       /\ post.expires_at = pre.expires_at

\* C31: update_context on a readable session sets the intent only when one is
\* given and the confidence only when one is given (a given 0 is stored), sets
\* the context field each keyword names, writes every other keyword into the
\* session-data map, and leaves every field and key not named, the history,
\* the status and expires_at as they were.
C31_UpdateContextFrame ==
    [][\A s \in Ids, u \in ContextUpdates \cup {<<NoType, None>>}, kw \in ContextKeywords :
          (/\ UpdateContext(s, u[1], u[2], kw)
           /\ s \in DOMAIN sessions
           /\ s \in DOMAIN sessions')
          => ContextUpdated(sessions[s], sessions'[s], u[1], u[2], kw)]_vars

\* ------------------------------------------------------------------ C32
\* the rows created more than 48 hours before the clock reads t
CreatedLongAgo(m, t) ==
    {k \in DOMAIN m :
        t - (m[k].created_at + proc.utc_offset * TicksPerHour) > 48 * TicksPerHour}

\* C32: cleanup_old_metrics removes exactly the rows created more than 48
\* hours ago: after it no such row is left, every younger row is in place
\* unchanged, and the hour buckets are unchanged.
C32_CleanupRemovesOldRows ==
    [][Cleanup =>
          /\ DOMAIN metrics' = DOMAIN metrics \ CreatedLongAgo(metrics, now)
          /\ \A k \in DOMAIN metrics' : metrics'[k] = metrics[k]
          /\ hourly' = hourly]_vars

\* ------------------------------------------------------------------ C33
\* the endpoints whose call into the core has just returned
AnsweringEndpoints ==
    IF ret.op = "process_message" /\ ret.via = "send" THEN {"send_message"}
    ELSE IF ret.op = "add_feedback" THEN {"add_feedback"}
    ELSE IF ret.op = "close_session" THEN {"close_dialogue"}
    ELSE IF ret.op = "get_session" THEN {"get_session_info", "get_message_history"}
    ELSE {}

\* C33: a transport operation addressed to an absent or expired session id
\* (send message, record feedback, session info, list messages, close) is
\* answered with status 404 carrying the SessionNotFound kind, never with
\* another kind of error.
C33_MissingSessionIs404 ==
    \A e \in AnsweringEndpoints :
        ret.err = SessionNotFound
        => Respond(e, ret.err) = [status_code |-> 404, kind |-> SessionNotFound]

\* ------------------------------------------------------------------ C34
\* C34: expires_at is fixed when the session is created.  No step of the
\* manager or of a turn (update_session, add_message, update_context,
\* close_session, process_message, feedback) changes it: every stored session
\* expires at its creation time plus the default TTL whatever was done to it,
\* and no turn returns normally after that time.
C34_ExpiryFixedAtCreation ==
    [][/\ \A s \in DOMAIN sessions' :
            /\ s \in DOMAIN sessions => sessions'[s].expires_at = sessions[s].expires_at
            /\ sessions'[s].expires_at = Some(sessions'[s].created_at + DefaultTTL)
       /\ TurnReturns =>
             /\ turn[T1].sid \in DOMAIN sessions'
             /\ now <= sessions'[turn[T1].sid].created_at + DefaultTTL]_vars

\* a session that was answered, rated and closed after the clock moved on
C34_Witness ==
    \E s \in DOMAIN sessions :
        /\ sessions[s].response_count >= 1
        /\ sessions[s].satisfaction # None
        /\ sessions[s].status = STATUS_COMPLETED
        /\ sessions[s].updated_at > sessions[s].created_at
        /\ now = sessions[s].created_at + DefaultTTL

\* ------------------------------------------------------------------ C35
\* the last operation got the session s: the store returned it, the manager
\* returned it to get_session_info or to add_feedback, or a turn got as far as a
\* provider call or its normal return, which a get_session precedes
GotSession(s) ==
    \/ /\ ret.op = "storage.get_session"
       /\ ret.sid = s
       /\ ret.val # None
    \/ /\ ret.op \in {"get_session_info", "process_message", "suspended"}
       /\ ret.sid = s
       /\ ret.err = NoError

\* C35: NotFound is permanent.  Once a get of an id was answered NotFound
\* because the session had expired, every later read of that id (by the
\* store, the manager, a turn or a feedback request) reports it missing and
\* no listing shows it, however turns, feedback writes (fetch, then persist),
\* listings and sweeps interleave: a session object persisted after its entry
\* was deleted does not become readable again.
C35_NotFoundIsPermanent ==
    \A s \in api.expired :
        /\ ~GotSession(s)
        /\ ret.op = "get_active_sessions" => s \notin DOMAIN ret.val

\* an id answered NotFound after expiry was back in the store, put there by
\* the feedback request that held the object, when the store was asked for
\* it again
C35_Witness ==
    \E s \in api.expired :
        /\ ret.op = "storage.get_session"
        /\ ret.sid = s
        /\ ret.had
        /\ ret.val = None
        /\ api.feedback = None

\* ------------------------------------------------------------------ C36
\* how many messages of a history the assistant wrote
AssistantMessages(messages) ==
    Cardinality({i \in 1..Len(messages) : messages[i].role = ROLE_ASSISTANT})

\* C36: in every state that create_session, add_message, process_message,
\* close_session and feedback produce, a session's context.response_count is
\* the number of assistant messages in its history.
C36_ResponseCountIsAssistantCount ==
    \A s \in DOMAIN sessions :
        sessions[s].response_count = AssistantMessages(sessions[s].messages)

\* a closed session a turn was answered on, after more user messages than replies
C36_Witness ==
    \E s \in DOMAIN sessions :
        /\ sessions[s].response_count = 1
        /\ Len(sessions[s].messages) >= 3
        /\ sessions[s].status = STATUS_COMPLETED

\* ------------------------------------------------------------------ C37
\* the step in which the generation call of the turn raised for good
GenerationFails ==
    /\ turn[T1].pc = "generate"
    /\ turn'[T1].pc = "idle"
    /\ ret'.err \in LLMErrors

\* C37: a turn that fails in generation is not rolled back.  The turn appended
\* its user message when it began, nothing is appended or removed while it
\* waits, and when generation fails the stored session is left as it is: its
\* history ends with that user message and has no reply to it, the intent the
\* turn classified stays in the context and its metric row stays, and no
\* latency, tokens or cost are recorded.
C37_FailedTurnNotRolledBack ==
    [][LET s == turn'[T1].sid
           b == turn[T1].sid
       IN /\ (TurnBegins /\ s \in DOMAIN sessions /\ s \in DOMAIN sessions') =>
                sessions'[s].messages
                    = Append(sessions[s].messages, Message(ROLE_USER, TurnText[T1]))
          /\ (turn[T1].pc # "idle" /\ turn'[T1].pc # "idle" /\ b \in DOMAIN sessions') =>
                sessions'[b].messages = sessions[b].messages
          /\ GenerationFails =>
                /\ sessions' = sessions
                /\ metrics' = metrics
                /\ hourly' = hourly
                /\ ret'.response_time = 0
                /\ b \in DOMAIN sessions =>
                      /\ sessions'[b].messages[Len(sessions'[b].messages)]
                            = Message(ROLE_USER, TurnText[T1])
                      /\ sessions'[b].request_type = turn[T1].request_type
                      /\ sessions'[b].request_type # NoType
                      /\ b \in DOMAIN metrics']_vars

\* generation has just failed on a stored session this turn classified
C37_Witness ==
    /\ ret.op = "process_message"
    /\ ret.err \in LLMErrors
    /\ ret.raw # "reply"
    /\ ret.sid \in DOMAIN sessions
    /\ sessions[ret.sid].request_type # NoType
    /\ sessions[ret.sid].response_count = 0
    /\ ret.sid \in DOMAIN metrics
    /\ metrics[ret.sid].response_times = <<>>

\* ------------------------------------------------------------------ C38
\* the step in which the classification call that gave up is handled
ClassificationExhausted ==
    /\ turn[T1].pc = "classify"
    /\ turn[T1].call.status = "raised"
    /\ turn'[T1].pc # "classify"

\* C38: one process_message invokes the provider at most 6 times: at most 3
\* times for classification, which happens only when the session has no
\* intent, and at most 3 times for generation, so a turn on a session that has
\* an intent invokes it at most 3 times; when classification has used its 3
\* attempts the turn goes on to generation with (general, 0.5).
C38_ProviderCallsPerTurn ==
    [][/\ api'.invoked <= 6
       /\ turn'[T1].call.attempts <= 3
       /\ ~api'.classifies => api'.invoked <= 3
       /\ (turn[T1].pc = "idle" /\ turn'[T1].pc # "idle") =>
             (api'.classifies <=> sessions[turn'[T1].sid].request_type = NoType)
       /\ turn'[T1].pc = "classify" => api'.invoked = turn'[T1].call.attempts
       /\ (ClassificationExhausted /\ ret'.err = NoError) =>
             /\ turn[T1].call.attempts = 3
             /\ turn'[T1].pc = "generate"
             /\ turn'[T1].request_type = "general"
             /\ turn'[T1].confidence = 50
             /\ sessions'[turn[T1].sid].request_type = "general"
             /\ sessions'[turn[T1].sid].confidence = 50]_vars

\* a turn whose classification and generation both gave up has just raised
C38_Witness ==
    /\ api.invoked = 6
    /\ api.classifies
    /\ ret.op = "process_message"
    /\ ret.err \in LLMErrors
    /\ ret.sid \in DOMAIN sessions
    /\ sessions[ret.sid].request_type = "general"

\* ------------------------------------------------------------------ C39
\* the add_message calls of a role that returned for a session
AddsBy(l, role) == Cardinality({i \in 1..Len(l.adds) : l.adds[i].role = role})
\* the step in which the turn of slot t returns normally
Completes(t) ==
    /\ turn[t].pc = "generate"
    /\ turn'[t].pc = "idle"
    /\ ret'.err = NoError

\* C39: however concurrent process_message calls on one session interleave,
\* a turn that completes has its user message and its reply in the stored
\* history, the user message before the reply, and the stored history has as
\* many messages as were seeded, plus one for every turn that started, plus
\* one for every turn that completed.
C39_ConcurrentTurnsKeepMessages ==
    [][/\ \A t \in Turns :
            Completes(t) =>
                LET s == turn[t].sid
                    after == sessions'[s].messages
                IN /\ s \in DOMAIN sessions'
                   /\ after[Len(after)] = Message(ROLE_ASSISTANT, ret'.response)
                   /\ \E i \in 1..(Len(after) - 1) :
                         after[i] = Message(ROLE_USER, TurnText[t])
       /\ \A s \in DOMAIN sessions' :
            (s \notin DOMAIN sessions \/ sessions'[s] # sessions[s] \/ log'[s] # log[s]) =>
                /\ Len(sessions'[s].messages)
                     = Len(log'[s].seed) + AddsBy(log'[s], ROLE_USER)
                       + AddsBy(log'[s], ROLE_ASSISTANT)
                /\ s \in DOMAIN sessions =>
                      IsPrefix(sessions[s].messages, sessions'[s].messages)
       /\ \A t \in Turns :
            (turn[t].pc = "idle" /\ turn'[t].pc # "idle" /\ turn'[t].sid \in DOMAIN sessions)
            => AddsBy(log'[turn'[t].sid], ROLE_USER)
                  = AddsBy(log[turn'[t].sid], ROLE_USER) + 1
       /\ \A t \in Turns :
            Completes(t) =>
                AddsBy(log'[turn[t].sid], ROLE_ASSISTANT)
                   = AddsBy(log[turn[t].sid], ROLE_ASSISTANT) + 1]_vars

\* two turns started on one session, the second to start has just completed
\* and the first is still waiting for the provider
C39_Witness ==
    \E s \in DOMAIN sessions :
        /\ Roles(sessions[s].messages) = <<ROLE_USER, ROLE_USER, ROLE_ASSISTANT>>
        /\ ret.op = "process_message"
        /\ ret.err = NoError
        /\ ret.sid = s
        /\ \E t \in InFlight(s) :
              /\ ret.turn # t
              /\ sessions[s].messages[1].content = TurnText[t]

\* ------------------------------------------------------------------ C40
\* the store with the session s made active again
Reopened(map, s) == [map EXCEPT ![s].status = STATUS_ACTIVE]
\* a result of the manager on the store with s closed is the result it gives
\* with s active, but for the status of s
SameButStatus(closed, active, s, status) ==
    /\ closed.err = active.err
    /\ DOMAIN closed.map = DOMAIN active.map
    /\ s \in DOMAIN closed.map => closed.map = [active.map EXCEPT ![s].status = status]

\* C40: close_session changes the status and updated_at of the session and
\* nothing else: the session stays stored with its messages, context and
\* expires_at.  process_message never changes a status, whatever its outcome,
\* and never reads it: each of its manager calls does to a closed, unexpired
\* session what it does to an active one (compared in every state a step
\* changed the session or the clock in), so a turn on a closed session is
\* begun, classified and answered like any other.
C40_CloseKeepsSessionUsable ==
    [][/\ \A s \in DOMAIN sessions :
            (CloseSession(s, STATUS_COMPLETED) /\ ret'.err = NoError) =>
                /\ s \in DOMAIN sessions'
                /\ sessions'[s] = [sessions[s] EXCEPT !.status = STATUS_COMPLETED,
                                                      !.updated_at = now']
       /\ turn' # turn =>
             \A s \in DOMAIN sessions \cap DOMAIN sessions' :
                 sessions'[s].status = sessions[s].status
       /\ \A s \in DOMAIN sessions :
            (SendMessage(T1, s) /\ ~PastExpiry(sessions, s, now')) =>
                /\ ret'.err = NoError
                /\ turn'[T1].pc # "idle"
                /\ sessions'[s].messages
                      = Append(sessions[s].messages, Message(ROLE_USER, TurnText[T1]))
       /\ \A s \in DOMAIN sessions' :
            (/\ sessions'[s].status # STATUS_ACTIVE
             /\ (now' # now \/ s \notin DOMAIN sessions \/ sessions'[s] # sessions[s])) =>
                \A t2 \in Later(now') :
                    /\ SameButStatus(
                           BeginTurn(sessions', s, TurnText[T1], now', t2, t2),
                           BeginTurn(Reopened(sessions', s), s, TurnText[T1], now', t2, t2),
                           s, sessions'[s].status)
                    /\ SameButStatus(
                           MgrAddMessage(sessions', s, ROLE_ASSISTANT, "we are sorry",
                                         now', t2),
                           MgrAddMessage(Reopened(sessions', s), s, ROLE_ASSISTANT,
                                         "we are sorry", now', t2),
                           s, sessions'[s].status)
                    /\ SameButStatus(
                           MgrUpdateContext(sessions', s, "sales", Some(90), <<>>, now', t2),
                           MgrUpdateContext(Reopened(sessions', s), s, "sales", Some(90),
                                            <<>>, now', t2),
                           s, sessions'[s].status)]_vars

\* a turn has been answered on a session that was closed before the reply was
\* stored, and the session is still closed
C40_Witness ==
    /\ ret.op = "process_message"
    /\ ret.err = NoError
    /\ ret.via = "send"
    /\ ret.sid \in DOMAIN sessions
    /\ sessions[ret.sid].status = STATUS_COMPLETED
    /\ sessions[ret.sid].response_count = 1
    /\ sessions[ret.sid].updated_at > sessions[ret.sid].created_at

====
